---- MODULE Spec2Model ----
(***************************************************************************)
(* Pipeline service of PaddleFlow (pkg/apiserver/controller/pipeline):     *)
(* create / update / list / get / delete of pipelines and pipeline         *)
(* versions over the relational store, with the schedule guards.           *)
(* Requests run concurrently; the checks of a request, each of its guard   *)
(* queries and its write to the store are steps of their own.              *)
(***************************************************************************)
EXTENDS Integers, Sequences, FiniteSets, TLC

(***************************************************************************)
(* Bounds of the model                                                     *)
(***************************************************************************)
\* pipelines the store ever creates (largest pipeline Pk)
MaxPipelines == 2
\* pipeline versions the store ever creates (largest version Pk)
MaxVersions == 3
\* schedules the scheduler ever creates
MaxSchedules == 1
\* pipelines and versions the store ever creates while a client pages
PagePipelines == 3
PageVersions == 3
\* largest page size a client asks for
MaxKeys == 2

Procs == {"r1", "r2"}

(***************************************************************************)
(* Values of the requests                                                  *)
(***************************************************************************)
RootUserName == "root"
Users == {RootUserName, "alice"}
Descs == {"d1", "d2"}

\* error codes of pkg/apiserver/common written to ctx.ErrorCode
NoError == ""
InvalidArguments == "InvalidArguments"
MalformedYaml == "MalformedYaml"
DuplicatedName == "DuplicatedName"
InternalError == "InternalError"
AccessDenied == "AccessDenied"
ActionNotAllowed == "ActionNotAllowed"
InvalidMarker == "InvalidMarker"

\* outcomes of a store lookup
Found == "found"
RecordNotFound == "ErrRecordNotFound"
StoreError == "storeError"

(***************************************************************************)
(* The state                                                               *)
(***************************************************************************)
VARIABLES
    pipelines,   \* rows of the pipeline table
    versions,    \* rows of the pipeline version table
    nextPplPk,   \* auto-increment primary key of the pipeline table
    nextVerPk,   \* auto-increment primary key of the version table
    schedules,   \* rows of the schedule table
    pc,          \* position of each request handler
    req,         \* the request each handler serves
    loc,         \* local variables of each handler
    res,         \* ctx.ErrorCode, the returned error and the response of each handler
    running,     \* FALSE while the first requests are served one at a time
    run          \* the paging run of the client of each handler

vars == <<pipelines, versions, nextPplPk, nextVerPk, schedules, pc, req, loc, res, running, run>>
store == <<pipelines, versions, nextPplPk, nextVerPk>>

(***************************************************************************)
(* Rows.  The store derives a row's ID from its primary key; both are kept *)
(* as the same number.  The zero values are Go's model.Pipeline{} and      *)
(* model.PipelineVersion{}.                                                *)
(***************************************************************************)
NoPipeline == [Pk |-> 0, ID |-> 0, Name |-> "", Desc |-> "", UserName |-> ""]
NoVersion == [Pk |-> 0, ID |-> 0, PipelineID |-> 0, FsID |-> "", FsName |-> "",
              YamlPath |-> "", PipelineYaml |-> "", UserName |-> ""]

PplIDs == 1..MaxPipelines
VerIDs == 1..MaxVersions

\* schedule statuses: models.ScheduleNotFinalStatusList and a final status
ScheduleNotFinalStatusList == {"running"}
ScheduleFinalStatus == "terminated"

(***************************************************************************)
(* External collaborators: base64, the filesystem, the workflow validator  *)
(***************************************************************************)
\* the workflow documents of the model: two valid ones, named a and b, and
\* one the validator rejects
YamlA == "yaml_a"
YamlB == "yaml_b"
YamlBad == "yaml_bad"
DefaultYamlPath == "./run.yaml"
OtherYamlPath == "./b.yaml"
MissingYamlPath == "./none.yaml"
LongDesc == "desc longer than util.MaxDescLength"

\* base64.StdEncoding.DecodeString on the raw payloads of the model
Base64Decode(raw) ==
    CASE raw = "b64_a" -> [err |-> FALSE, yaml |-> YamlA]
      [] raw = "b64_b" -> [err |-> FALSE, yaml |-> YamlB]
      [] raw = "b64_bad" -> [err |-> FALSE, yaml |-> YamlBad]
      [] OTHER -> [err |-> TRUE, yaml |-> ""]

\* CheckFsAndGetID: the named filesystem resolved to its id; fsOk is FALSE
\* when the lookup fails (no such filesystem, or not the caller's)
CheckFsAndGetID(userName, fsName, fsOk) ==
    IF fsOk /\ fsName = "fs1"
    THEN [err |-> FALSE, fsID |-> "fs-root-fs1"]
    ELSE [err |-> TRUE, fsID |-> ""]

\* handler.ReadFileFromFs: the files of filesystem fs1
ReadFileFromFs(fsID, path) ==
    CASE path = DefaultYamlPath -> [err |-> FALSE, yaml |-> YamlA]
      [] path = OtherYamlPath -> [err |-> FALSE, yaml |-> YamlB]
      [] OTHER -> [err |-> TRUE, yaml |-> ""]

\* validateWorkflowForPipeline: the name of a valid workflow
validateWorkflowForPipeline(pipelineYaml) ==
    CASE pipelineYaml = YamlA -> [err |-> FALSE, name |-> "a"]
      [] pipelineYaml = YamlB -> [err |-> FALSE, name |-> "b"]
      [] OTHER -> [err |-> TRUE, name |-> ""]

IsRootUser(userName) == userName = RootUserName

\* the outcomes of the filesystem lookup for a request: none is made, and none
\* fails, for a request that names no filesystem
FsOutcomes(request) == IF request.FsName = "" THEN {TRUE} ELSE BOOLEAN

(***************************************************************************)
(* Source resolution                                                       *)
(***************************************************************************)
getPipelineYamlFromYamlRaw(request) ==
    LET d == Base64Decode(request.YamlRaw)
    IN  [err |-> d.err, yaml |-> d.yaml, YamlPath |-> request.YamlPath]

getPipelineYamlFromYamlPath(userName, request, fsOk) ==
    LET yamlPath == IF request.YamlPath = "" THEN DefaultYamlPath ELSE request.YamlPath
        fs == CheckFsAndGetID(userName, request.FsName, fsOk)
        file == ReadFileFromFs(fs.fsID, yamlPath)
    IN  IF request.FsName = "" THEN [err |-> TRUE, yaml |-> "", YamlPath |-> yamlPath]
        ELSE IF fs.err THEN [err |-> TRUE, yaml |-> "", YamlPath |-> yamlPath]
        ELSE IF file.err THEN [err |-> TRUE, yaml |-> "", YamlPath |-> yamlPath]
        ELSE [err |-> FALSE, yaml |-> file.yaml, YamlPath |-> yamlPath]

\* a getPipelineYaml that takes the inline payload whatever else is given
getPipelineYaml_RawWins(userName, request, fsOk) ==
    IF request.YamlRaw # "" THEN getPipelineYamlFromYamlRaw(request)
    ELSE getPipelineYamlFromYamlPath(userName, request, fsOk)

\* the bytes of the request's source and the request's YamlPath after the call
getPipelineYaml(userName, request, fsOk) ==
    IF request.YamlRaw # ""
    THEN IF request.YamlPath # "" THEN [err |-> TRUE, yaml |-> "", YamlPath |-> request.YamlPath]
         ELSE IF request.FsName # "" THEN [err |-> TRUE, yaml |-> "", YamlPath |-> request.YamlPath]
         ELSE getPipelineYamlFromYamlRaw(request)
    ELSE getPipelineYamlFromYamlPath(userName, request, fsOk)

(***************************************************************************)
(* The store (storage.Pipeline) and the schedule table (models)            *)
(***************************************************************************)
\* the tables and their auto-increment keys as one value
DB == [pipelines |-> pipelines, versions |-> versions,
       nextPplPk |-> nextPplPk, nextVerPk |-> nextVerPk]
EmptyDB == [pipelines |-> {}, versions |-> {}, nextPplPk |-> 1, nextVerPk |-> 1]

\* a lookup: dbOk is FALSE when the store fails for another reason than not-found
Lookup(rows, none, dbOk) ==
    IF ~dbOk THEN [status |-> StoreError, row |-> none]
    ELSE IF rows = {} THEN [status |-> RecordNotFound, row |-> none]
    ELSE [status |-> Found, row |-> CHOOSE r \in rows : TRUE]

StoreGetPipeline(name, userName, dbOk) ==
    Lookup({r \in pipelines : r.Name = name /\ r.UserName = userName}, NoPipeline, dbOk)

StoreGetPipelineByID(id, dbOk) ==
    Lookup({r \in pipelines : r.ID = id}, NoPipeline, dbOk)

StoreGetPipelineVersion(pipelineID, pipelineVersionID, dbOk) ==
    Lookup({v \in versions : v.PipelineID = pipelineID /\ v.ID = pipelineVersionID},
           NoVersion, dbOk)

StoreCountPipelineVersion(pipelineID) ==
    Cardinality({v \in versions : v.PipelineID = pipelineID})

\* models.ListSchedule(pipelineIDs, pipelineVersionIDs, statuses): an empty
\* filter list matches every row
ListSchedule(pplFilter, verFilter, statusFilter) ==
    {s \in schedules :
        /\ pplFilter = {} \/ s.PipelineID \in pplFilter
        /\ verFilter = {} \/ s.PipelineVersionID \in verFilter
        /\ statusFilter = {} \/ s.Status \in statusFilter}

\* the unique index on (name, owner) of the pipeline table
UniqueNameViolated(db, ppl) ==
    \E r \in db.pipelines : r.Name = ppl.Name /\ r.UserName = ppl.UserName

\* storage.Pipeline.CreatePipeline: the pipeline and its first version in one
\* transaction, with the keys the tables assign; refused by the unique index
StoreCreatePipeline(db, ppl, pplVersion, dbOk) ==
    IF ~dbOk \/ UniqueNameViolated(db, ppl)
    THEN [err |-> TRUE, db |-> db, pplID |-> 0, pplVersionID |-> 0]
    ELSE [err |-> FALSE,
          db |-> [pipelines |-> db.pipelines \cup
                      {[ppl EXCEPT !.Pk = db.nextPplPk, !.ID = db.nextPplPk]},
                  versions |-> db.versions \cup
                      {[pplVersion EXCEPT !.Pk = db.nextVerPk, !.ID = db.nextVerPk,
                                          !.PipelineID = db.nextPplPk]},
                  nextPplPk |-> db.nextPplPk + 1,
                  nextVerPk |-> db.nextVerPk + 1],
          pplID |-> db.nextPplPk, pplVersionID |-> db.nextVerPk]

\* storage.Pipeline.UpdatePipeline: the columns of ppl written to the row with
\* its Pk, and the new version, in one transaction.  When the pipeline row is
\* gone the store either refuses the transaction or inserts the version alone.
StoreUpdatePipeline(db, ppl, pplVersion, dbOk, refuse) ==
    IF ~dbOk \/ (refuse /\ \A r \in db.pipelines : r.Pk # ppl.Pk)
    THEN [err |-> TRUE, db |-> db, pplID |-> 0, pplVersionID |-> 0]
    ELSE [err |-> FALSE,
          db |-> [db EXCEPT
                  !.pipelines = {IF r.Pk = ppl.Pk THEN ppl ELSE r :
                                     r \in db.pipelines},
                  !.versions = @ \cup
                      {[pplVersion EXCEPT !.Pk = db.nextVerPk, !.ID = db.nextVerPk]},
                  !.nextVerPk = @ + 1],
          pplID |-> ppl.ID, pplVersionID |-> db.nextVerPk]

\* storage.Pipeline.DeletePipeline: the pipeline and all of its versions
StoreDeletePipeline(db, pipelineID, dbOk) ==
    IF ~dbOk THEN [err |-> TRUE, db |-> db]
    ELSE [err |-> FALSE,
          db |-> [db EXCEPT !.pipelines = {r \in @ : r.ID # pipelineID},
                            !.versions = {v \in @ : v.PipelineID # pipelineID}]]

\* storage.Pipeline.DeletePipelineVersion: the one version row
StoreDeletePipelineVersion(db, pipelineID, pipelineVersionID, dbOk) ==
    IF ~dbOk THEN [err |-> TRUE, db |-> db]
    ELSE [err |-> FALSE,
          db |-> [db EXCEPT !.versions = {v \in @ : ~(v.PipelineID = pipelineID
                                                      /\ v.ID = pipelineVersionID)}]]

\* the tables after a transaction
Commit(db) ==
    /\ pipelines' = db.pipelines
    /\ versions' = db.versions
    /\ nextPplPk' = db.nextPplPk
    /\ nextVerPk' = db.nextVerPk

(***************************************************************************)
(* Markers (common.EncryptPk, common.DecryptPk): the decimal digits of the *)
(* key under a substitution, followed by a check digit                     *)
(***************************************************************************)
RECURSIVE Digits(_)
Digits(n) == IF n < 10 THEN <<n>> ELSE Digits(n \div 10) \o <<n % 10>>

RECURSIVE DigitSum(_)
DigitSum(d) == IF d = <<>> THEN 0 ELSE d[1] + DigitSum(Tail(d))

RECURSIVE DigitValue(_)
DigitValue(d) == IF d = <<>> THEN 0 ELSE 10 * DigitValue(SubSeq(d, 1, Len(d) - 1)) + d[Len(d)]

EncryptPk(pk) ==
    LET d == Digits(pk)
    IN  [i \in 1..Len(d) |-> (7 * d[i] + 3) % 10] \o <<DigitSum(d) % 10>>

DecryptPk(marker) ==
    IF Len(marker) < 2 \/ \E i \in 1..Len(marker) : marker[i] \notin 0..9
    THEN [err |-> TRUE, pk |-> 0]
    ELSE LET d == [i \in 1..(Len(marker) - 1) |-> (3 * marker[i] + 1) % 10]
         IN  IF DigitSum(d) % 10 # marker[Len(marker)] \/ (Len(d) > 1 /\ d[1] = 0)
             THEN [err |-> TRUE, pk |-> 0]
             ELSE [err |-> FALSE, pk |-> DigitValue(d)]

\* a marker that is no encryption of a key
BadMarker == <<1, 1>>

(***************************************************************************)
(* Listing queries of the store                                            *)
(***************************************************************************)
\* rows in ascending order of their primary key
RECURSIVE OrderByPk(_)
OrderByPk(rows) ==
    IF rows = {} THEN <<>>
    ELSE LET first == CHOOSE r \in rows : \A o \in rows : r.Pk <= o.Pk
         IN  <<first>> \o OrderByPk(rows \ {first})

Limit(list, maxKeys) ==
    IF maxKeys > 0 /\ Len(list) > maxKeys THEN SubSeq(list, 1, maxKeys) ELSE list

\* the pipelines the filters of a listing select: an empty filter selects all
MatchingPipelines(userFilter, nameFilter) ==
    {r \in pipelines : /\ userFilter = {} \/ r.UserName \in userFilter
                       /\ nameFilter = {} \/ r.Name \in nameFilter}

\* the versions of a pipeline the filesystem filter selects
MatchingVersions(pipelineID, fsFilter) ==
    {v \in versions : /\ v.PipelineID = pipelineID
                      /\ fsFilter = {} \/ v.FsName \in fsFilter}

\* storage.Pipeline.ListPipeline: the page after key pk
StoreListPipeline(pk, maxKeys, userFilter, nameFilter) ==
    Limit(OrderByPk({r \in MatchingPipelines(userFilter, nameFilter) : r.Pk > pk}), maxKeys)

\* storage.Pipeline.ListPipelineVersion: the page after key pk
StoreListPipelineVersion(pipelineID, pk, maxKeys, fsFilter) ==
    Limit(OrderByPk({v \in MatchingVersions(pipelineID, fsFilter) : v.Pk > pk}), maxKeys)

\* whether pk is the key of the last of the rows: a store error when dbOk is
\* FALSE; when there is no row, an error or "no" (strict tells which)
IsLastPk(rows, pk, dbOk, strict) ==
    IF ~dbOk \/ (rows = {} /\ strict) THEN [err |-> TRUE, isLast |-> FALSE]
    ELSE IF rows = {} THEN [err |-> FALSE, isLast |-> FALSE]
    ELSE [err |-> FALSE, isLast |-> (\A r \in rows : r.Pk <= pk) /\ (\E o \in rows : o.Pk = pk)]

\* storage.Pipeline.IsLastPipelinePk
StoreIsLastPipelinePk(pk, userFilter, nameFilter, dbOk, strict) ==
    IsLastPk(MatchingPipelines(userFilter, nameFilter), pk, dbOk, strict)

\* storage.Pipeline.IsLastPipelineVersionPk
StoreIsLastPipelineVersionPk(pipelineID, pk, fsFilter, dbOk, strict) ==
    IsLastPk(MatchingVersions(pipelineID, fsFilter), pk, dbOk, strict)

(***************************************************************************)
(* Requests, locals and results of the handlers                            *)
(***************************************************************************)
NoReq == [op |-> "", user |-> "", pipelineID |-> 0, pipelineVersionID |-> 0,
          FsName |-> "", YamlPath |-> "", YamlRaw |-> "", Desc |-> "",
          marker |-> <<>>, maxKeys |-> 0, userFilter |-> {}, nameFilter |-> {},
          fsFilter |-> {}]
NoLoc == [ppl |-> NoPipeline, pplName |-> "", yaml |-> "", YamlPath |-> "",
          list |-> <<>>]
NoRes == [code |-> NoError, err |-> FALSE, fault |-> FALSE, wrote |-> FALSE,
          PipelineID |-> 0, PipelineVersionID |-> 0, Name |-> "",
          Pipeline |-> NoPipeline, PipelineVersion |-> NoVersion,
          list |-> <<>>, NextMarker |-> <<>>, IsTruncated |-> FALSE]
\* a client that follows the markers of a listing: its request, the keys of the
\* rows it has received, the keys of the rows the listing selected and the next
\* key of the table when it asked for the first page, the pages received
NoRun == [request |-> NoReq, acc |-> <<>>, start |-> {}, next |-> 0, pages |-> 0]

\* the client has received one more page
Received(r, list) ==
    IF r = NoRun THEN NoRun
    ELSE [r EXCEPT !.acc = @ \o [i \in 1..Len(list) |-> list[i].Pk], !.pages = @ + 1]

\* the source forms of a create or update request: inline payloads,
RawForms ==
    { [FsName |-> "", YamlPath |-> "", YamlRaw |-> "b64_a"],
      [FsName |-> "", YamlPath |-> "", YamlRaw |-> "b64_b"],
      [FsName |-> "", YamlPath |-> "", YamlRaw |-> "b64_bad"],
      [FsName |-> "", YamlPath |-> "", YamlRaw |-> "not base64"] }
\* files of a filesystem,
FsForms ==
    { [FsName |-> "fs1", YamlPath |-> "", YamlRaw |-> ""],
      [FsName |-> "fs1", YamlPath |-> OtherYamlPath, YamlRaw |-> ""],
      [FsName |-> "fs1", YamlPath |-> MissingYamlPath, YamlRaw |-> ""] }
\* and the forms that name no source or more than one
BadForms ==
    { [FsName |-> "", YamlPath |-> OtherYamlPath, YamlRaw |-> "b64_a"],
      [FsName |-> "fs1", YamlPath |-> "", YamlRaw |-> "b64_a"],
      [FsName |-> "", YamlPath |-> "", YamlRaw |-> ""],
      [FsName |-> "", YamlPath |-> OtherYamlPath, YamlRaw |-> ""] }

CreateRequests(users, forms, descs) ==
    { [NoReq EXCEPT !.op = "CreatePipeline", !.user = u, !.FsName = f.FsName,
                    !.YamlPath = f.YamlPath, !.YamlRaw = f.YamlRaw, !.Desc = d] :
        u \in users, f \in forms, d \in descs }

UpdateRequests(users, forms, descs) ==
    { [r EXCEPT !.op = "UpdatePipeline", !.pipelineID = id] :
        r \in CreateRequests(users, forms, descs), id \in PplIDs }

DeleteRequests ==
    { [NoReq EXCEPT !.op = "DeletePipeline", !.user = u, !.pipelineID = id] :
        u \in Users, id \in PplIDs }

DeleteVersionRequests ==
    { [NoReq EXCEPT !.op = "DeletePipelineVersion", !.user = u, !.pipelineID = id,
                    !.pipelineVersionID = v] :
        u \in Users, id \in PplIDs, v \in VerIDs }

ListRequests(users, markers, sizes, userFilters, nameFilters) ==
    { [NoReq EXCEPT !.op = "ListPipeline", !.user = u, !.marker = m, !.maxKeys = k,
                    !.userFilter = uf, !.nameFilter = nf] :
        u \in users, m \in markers, k \in sizes, uf \in userFilters, nf \in nameFilters }

GetVersionRequests ==
    { [NoReq EXCEPT !.op = "GetPipelineVersion", !.user = u, !.pipelineID = id,
                    !.pipelineVersionID = v] :
        u \in Users, id \in PplIDs, v \in VerIDs }

\* a handler returns: the error code of the context, the error and the response
Return(p, op, result) ==
    /\ pc' = [pc EXCEPT ![p] = "done"]
    /\ res' = [res EXCEPT ![p] = result]
    /\ loc' = [loc EXCEPT ![p] = NoLoc]
    /\ req' = [req EXCEPT ![p] = [NoReq EXCEPT !.op = op]]

\* a failure that leaves no error code on the context
Fail_NoCode(code, fault) == [NoRes EXCEPT !.err = TRUE, !.fault = fault]

Fail(code, fault) == [NoRes EXCEPT !.code = code, !.err = TRUE, !.fault = fault]

\* a handler goes on to its next step with the arguments and locals it still reads
Goto(p, step, request, locals) ==
    /\ pc' = [pc EXCEPT ![p] = step]
    /\ req' = [req EXCEPT ![p] = request]
    /\ loc' = [loc EXCEPT ![p] = locals]
    /\ res' = res

\* handler p may take a request: one at a time until the requests run concurrently
MayCall(p) ==
    /\ pc[p] = "idle"
    /\ running \/ \A q \in Procs \ {p} : pc[q] = "idle"

\* the requests that will insert a row are admitted while the keys they will
\* be given stay within maxPpl and maxVer
InBounds(maxPpl, maxVer) ==
    /\ nextPplPk + Cardinality({q \in Procs : pc'[q] = "create_write"}) <= maxPpl + 1
    /\ nextVerPk + Cardinality({q \in Procs : pc'[q] \in {"create_write", "update_write"}})
           <= maxVer + 1

(***************************************************************************)
(* CreatePipeline                                                          *)
(***************************************************************************)
\* the checks of a CreatePipeline that takes a name in use for a free one
CreatePipelineCheck_NoLookup(request, y, v, g) ==
    IF request.Desc = LongDesc THEN InvalidArguments
    ELSE IF y.err THEN InvalidArguments
    ELSE IF v.err THEN MalformedYaml
    ELSE IF g.status = StoreError THEN InternalError
    ELSE NoError

\* lines 172-212: the checks up to the lookup of the name; "" when all pass
CreatePipelineCheck(request, y, v, g) ==
    IF request.Desc = LongDesc THEN InvalidArguments
    ELSE IF y.err THEN InvalidArguments
    ELSE IF v.err THEN MalformedYaml
    ELSE IF g.status = Found THEN DuplicatedName
    ELSE IF g.status # RecordNotFound THEN InternalError
    ELSE NoError

CreatePipeline_Check(p, requests) ==
    /\ MayCall(p)
    /\ \E request \in requests, dbOk \in BOOLEAN :
       \E fsOk \in FsOutcomes(request) :
         LET y == getPipelineYaml(request.user, request, fsOk)
             v == validateWorkflowForPipeline(y.yaml)
             g == StoreGetPipeline(v.name, request.user, dbOk)
             code == CreatePipelineCheck(request, y, v, g)
         IN  IF code # NoError
             THEN Return(p, request.op, Fail(code, code = InternalError))
             ELSE Goto(p, "create_write",
                       [request EXCEPT !.YamlPath = "", !.YamlRaw = ""],
                       [NoLoc EXCEPT !.pplName = v.name, !.yaml = y.yaml,
                                     !.YamlPath = y.YamlPath])
    /\ UNCHANGED <<store, schedules, running, run>>

\* lines 224-233: the id of the request's filesystem, and the error code the
\* context is left with when it cannot be resolved
ResolveFs(request, fsOk, code) ==
    LET fs == CheckFsAndGetID(request.user, request.FsName, fsOk)
    IN  IF request.FsName = "" THEN [fsID |-> "", code |-> NoError]
        ELSE IF fs.err THEN [fsID |-> "", code |-> code]
        ELSE [fsID |-> fs.fsID, code |-> NoError]

\* a create that stores the rows as rows of root, whoever calls
CreatePipeline_Write_AsRoot(p) ==
    /\ pc[p] = "create_write"
    /\ \E fsOk \in FsOutcomes(req[p]), dbOk \in BOOLEAN :
         LET request == req[p]
             fs == ResolveFs(request, fsOk, InvalidArguments)
             ppl == [NoPipeline EXCEPT !.Name = loc[p].pplName, !.Desc = request.Desc,
                                       !.UserName = RootUserName]
             pplVersion == [NoVersion EXCEPT !.FsID = fs.fsID, !.FsName = request.FsName,
                                             !.YamlPath = loc[p].YamlPath,
                                             !.PipelineYaml = loc[p].yaml,
                                             !.UserName = RootUserName]
             w == StoreCreatePipeline(DB, ppl, pplVersion, dbOk)
         IN  /\ Commit(w.db)
             /\ IF w.err
                THEN Return(p, request.op, Fail(InternalError, TRUE))
                ELSE Return(p, request.op,
                            [NoRes EXCEPT !.code = fs.code, !.wrote = TRUE,
                                          !.PipelineID = w.pplID,
                                          !.PipelineVersionID = w.pplVersionID,
                                          !.Name = loc[p].pplName])
    /\ UNCHANGED <<schedules, running, run>>

\* lines 214-258
CreatePipeline_Write(p) ==
    /\ pc[p] = "create_write"
    /\ \E fsOk \in FsOutcomes(req[p]), dbOk \in BOOLEAN :
         LET request == req[p]
             fs == ResolveFs(request, fsOk, InvalidArguments)
             ppl == [NoPipeline EXCEPT !.Name = loc[p].pplName, !.Desc = request.Desc,
                                       !.UserName = request.user]
             pplVersion == [NoVersion EXCEPT !.FsID = fs.fsID, !.FsName = request.FsName,
                                             !.YamlPath = loc[p].YamlPath,
                                             !.PipelineYaml = loc[p].yaml,
                                             !.UserName = request.user]
             w == StoreCreatePipeline(DB, ppl, pplVersion, dbOk)
         IN  /\ Commit(w.db)
             /\ IF w.err
                THEN Return(p, request.op, Fail(InternalError, TRUE))
                ELSE Return(p, request.op,
                            [NoRes EXCEPT !.code = fs.code, !.wrote = TRUE,
                                          !.PipelineID = w.pplID,
                                          !.PipelineVersionID = w.pplVersionID,
                                          !.Name = loc[p].pplName])
    /\ UNCHANGED <<schedules, running, run>>

(***************************************************************************)
(* Permission checks                                                       *)
(***************************************************************************)
\* a permission check that grants every caller access to a stored pipeline
CheckPipelinePermission_Open(userName, pipelineID, dbOk) ==
    LET g == StoreGetPipelineByID(pipelineID, dbOk)
    IN  IF g.status # Found THEN [hasAuth |-> FALSE, ppl |-> NoPipeline, err |-> g.status]
        ELSE [hasAuth |-> TRUE, ppl |-> g.row, err |-> ""]

\* lines 664-681: <<hasAuth, ppl, err>>
CheckPipelinePermission(userName, pipelineID, dbOk) ==
    LET g == StoreGetPipelineByID(pipelineID, dbOk)
    IN  IF g.status # Found THEN [hasAuth |-> FALSE, ppl |-> NoPipeline, err |-> g.status]
        ELSE IF ~IsRootUser(userName) /\ userName # g.row.UserName
        THEN [hasAuth |-> FALSE, ppl |-> NoPipeline, err |-> ""]
        ELSE [hasAuth |-> TRUE, ppl |-> g.row, err |-> ""]

\* lines 683-703: <<hasAuth, ppl, pplVersion, err>>
CheckPipelineVersionPermission(userName, pipelineID, pipelineVersionID, dbOk) ==
    LET c == CheckPipelinePermission(userName, pipelineID, dbOk)
        g == StoreGetPipelineVersion(pipelineID, pipelineVersionID, dbOk)
    IN  IF c.err # "" THEN [hasAuth |-> FALSE, ppl |-> NoPipeline, pplVersion |-> NoVersion, err |-> c.err]
        ELSE IF ~c.hasAuth THEN [hasAuth |-> FALSE, ppl |-> NoPipeline, pplVersion |-> NoVersion, err |-> ""]
        ELSE IF g.status # Found THEN [hasAuth |-> FALSE, ppl |-> NoPipeline, pplVersion |-> NoVersion, err |-> g.status]
        ELSE [hasAuth |-> TRUE, ppl |-> c.ppl, pplVersion |-> g.row, err |-> ""]

(***************************************************************************)
(* UpdatePipeline                                                          *)
(***************************************************************************)
\* an UpdatePipeline that also makes the caller the owner of the row
UpdatedPipeline_Owner(ppl, request) ==
    [ppl EXCEPT !.Desc = request.Desc, !.UserName = request.user]

\* the row UpdatePipeline hands to the store: the one it read, with the
\* description of the request
UpdatedPipeline(ppl, request) == [ppl EXCEPT !.Desc = request.Desc]

\* the checks of an UpdatePipeline that accepts a workflow of another name
UpdatePipelineCheck_Rename(request, y, v, c) ==
    IF request.Desc = LongDesc THEN InvalidArguments
    ELSE IF y.err THEN InvalidArguments
    ELSE IF v.err THEN MalformedYaml
    ELSE IF c.err # "" THEN InvalidArguments
    ELSE IF ~c.hasAuth THEN AccessDenied
    ELSE NoError

\* lines 261-306: the checks before the write; "" when all pass
UpdatePipelineCheck(request, y, v, c) ==
    IF request.Desc = LongDesc THEN InvalidArguments
    ELSE IF y.err THEN InvalidArguments
    ELSE IF v.err THEN MalformedYaml
    ELSE IF c.err # "" THEN InvalidArguments
    ELSE IF ~c.hasAuth THEN AccessDenied
    ELSE IF c.ppl.Name # v.name THEN InvalidArguments
    ELSE NoError

UpdatePipeline_Check(p, requests) ==
    /\ MayCall(p)
    /\ \E request \in requests, dbOk \in BOOLEAN :
       \E fsOk \in FsOutcomes(request) :
         LET y == getPipelineYaml(request.user, request, fsOk)
             v == validateWorkflowForPipeline(y.yaml)
             c == CheckPipelinePermission(request.user, request.pipelineID, dbOk)
             code == UpdatePipelineCheck(request, y, v, c)
         IN  IF code # NoError
             THEN Return(p, request.op, Fail(code, c.err = StoreError))
             ELSE Goto(p, "update_write",
                       [request EXCEPT !.YamlPath = "", !.YamlRaw = "", !.Desc = ""],
                       [NoLoc EXCEPT !.ppl = UpdatedPipeline(c.ppl, request),
                                     !.pplName = v.name, !.yaml = y.yaml,
                                     !.YamlPath = y.YamlPath])
    /\ UNCHANGED <<store, schedules, running, run>>

\* lines 308-345
UpdatePipeline_Write(p) ==
    /\ pc[p] = "update_write"
    /\ \E fsOk \in FsOutcomes(req[p]), dbOk \in BOOLEAN, refuse \in BOOLEAN :
         LET request == req[p]
             fs == ResolveFs(request, fsOk, InternalError)
             pplVersion == [NoVersion EXCEPT !.PipelineID = request.pipelineID,
                                             !.FsID = fs.fsID, !.FsName = request.FsName,
                                             !.YamlPath = loc[p].YamlPath,
                                             !.PipelineYaml = loc[p].yaml,
                                             !.UserName = request.user]
             w == StoreUpdatePipeline(DB, loc[p].ppl, pplVersion, dbOk, refuse)
         IN  /\ Commit(w.db)
             /\ IF w.err
                THEN Return(p, request.op, Fail(InternalError, TRUE))
                ELSE Return(p, request.op,
                            [NoRes EXCEPT !.code = fs.code, !.wrote = TRUE,
                                          !.PipelineID = w.pplID,
                                          !.PipelineVersionID = w.pplVersionID])
    /\ UNCHANGED <<schedules, running, run>>

(***************************************************************************)
(* DeletePipeline                                                          *)
(***************************************************************************)
\* a permission check that lets every caller of an existing pipeline pass
DeletePermissionCheck_NoOwner(c) ==
    IF c.err # "" THEN InternalError ELSE NoError

\* lines 575-586 and 613-624: the outcome of the permission check; "" when it passes
DeletePermissionCheck(c) ==
    IF c.err # "" THEN InternalError
    ELSE IF ~c.hasAuth THEN AccessDenied
    ELSE NoError

DeletePipeline_Permission(p, requests) ==
    /\ MayCall(p)
    /\ \E request \in requests, dbOk \in BOOLEAN :
         LET c == CheckPipelinePermission(request.user, request.pipelineID, dbOk)
             code == DeletePermissionCheck(c)
         IN  IF code # NoError
             THEN Return(p, request.op, Fail(code, c.err = StoreError))
             ELSE Goto(p, "delete_guard", [request EXCEPT !.user = ""], NoLoc)
    /\ UNCHANGED <<store, schedules, running, run>>

\* a schedule guard that lets a referenced pipeline pass
ScheduleGuard_Off(scheduleList, dbOk) ==
    IF ~dbOk THEN InternalError ELSE NoError

\* lines 589-600 and 641-652: the outcome of the schedule guard; "" when it passes
ScheduleGuard(scheduleList, dbOk) ==
    IF ~dbOk THEN InternalError
    ELSE IF Cardinality(scheduleList) > 0 THEN ActionNotAllowed
    ELSE NoError

\* lines 588-600
DeletePipeline_Guard(p) ==
    /\ pc[p] = "delete_guard"
    /\ \E dbOk \in BOOLEAN :
         LET scheduleList == ListSchedule({req[p].pipelineID}, {}, ScheduleNotFinalStatusList)
             code == ScheduleGuard(scheduleList, dbOk)
         IN  IF code # NoError
             THEN Return(p, req[p].op, Fail(code, ~dbOk))
             ELSE Goto(p, "delete_write", req[p], loc[p])
    /\ UNCHANGED <<store, schedules, running, run>>

\* a delete that reads the schedules again in the transaction that removes
\* the rows, and removes nothing when a non-final schedule references them
DeletePipeline_Write_Fenced(p) ==
    /\ pc[p] = "delete_write"
    /\ \E dbOk \in BOOLEAN :
         LET scheduleList == ListSchedule({req[p].pipelineID}, {}, ScheduleNotFinalStatusList)
             w == StoreDeletePipeline(DB, req[p].pipelineID, dbOk)
         IN  IF Cardinality(scheduleList) > 0
             THEN UNCHANGED store /\ Return(p, req[p].op, Fail(ActionNotAllowed, FALSE))
             ELSE /\ Commit(w.db)
                  /\ IF w.err
                     THEN Return(p, req[p].op, Fail(InternalError, TRUE))
                     ELSE Return(p, req[p].op, [NoRes EXCEPT !.wrote = TRUE])
    /\ UNCHANGED <<schedules, running, run>>

\* lines 602-608
DeletePipeline_Write(p) ==
    /\ pc[p] = "delete_write"
    /\ \E dbOk \in BOOLEAN :
         LET w == StoreDeletePipeline(DB, req[p].pipelineID, dbOk)
         IN  /\ Commit(w.db)
             /\ IF w.err
                THEN Return(p, req[p].op, Fail(InternalError, TRUE))
                ELSE Return(p, req[p].op, [NoRes EXCEPT !.wrote = TRUE])
    /\ UNCHANGED <<schedules, running, run>>

(***************************************************************************)
(* DeletePipelineVersion                                                   *)
(***************************************************************************)
\* lines 613-624
DeletePipelineVersion_Permission(p, requests) ==
    /\ MayCall(p)
    /\ \E request \in requests, dbOk \in BOOLEAN :
         LET c == CheckPipelineVersionPermission(request.user, request.pipelineID,
                                                 request.pipelineVersionID, dbOk)
             code == DeletePermissionCheck(c)
         IN  IF code # NoError
             THEN Return(p, request.op, Fail(code, c.err = StoreError))
             ELSE Goto(p, "delver_count", [request EXCEPT !.user = ""], NoLoc)
    /\ UNCHANGED <<store, schedules, running, run>>

\* a last-version guard that lets the only version pass
LastVersionGuard_Off(count, dbOk) ==
    IF ~dbOk THEN InternalError ELSE NoError

\* lines 626-638: the outcome of the last-version guard; "" when it passes
LastVersionGuard(count, dbOk) ==
    IF ~dbOk THEN InternalError
    ELSE IF count = 1 THEN ActionNotAllowed
    ELSE NoError

DeletePipelineVersion_Count(p) ==
    /\ pc[p] = "delver_count"
    /\ \E dbOk \in BOOLEAN :
         LET count == StoreCountPipelineVersion(req[p].pipelineID)
             code == LastVersionGuard(count, dbOk)
         IN  IF code # NoError
             THEN Return(p, req[p].op, Fail(code, ~dbOk))
             ELSE Goto(p, "delver_guard", req[p], loc[p])
    /\ UNCHANGED <<store, schedules, running, run>>

\* a guard of DeletePipelineVersion with the scope of the guard of DeletePipeline
DeletePipelineVersion_Guard_AnyVersion(p) ==
    /\ pc[p] = "delver_guard"
    /\ \E dbOk \in BOOLEAN :
         LET scheduleList == ListSchedule({req[p].pipelineID}, {}, ScheduleNotFinalStatusList)
             code == ScheduleGuard(scheduleList, dbOk)
         IN  IF code # NoError
             THEN Return(p, req[p].op, Fail(code, ~dbOk))
             ELSE Goto(p, "delver_write", req[p], loc[p])
    /\ UNCHANGED <<store, schedules, running, run>>

\* lines 640-652
DeletePipelineVersion_Guard(p) ==
    /\ pc[p] = "delver_guard"
    /\ \E dbOk \in BOOLEAN :
         LET scheduleList == ListSchedule({req[p].pipelineID}, {req[p].pipelineVersionID},
                                          ScheduleNotFinalStatusList)
             code == ScheduleGuard(scheduleList, dbOk)
         IN  IF code # NoError
             THEN Return(p, req[p].op, Fail(code, ~dbOk))
             ELSE Goto(p, "delver_write", req[p], loc[p])
    /\ UNCHANGED <<store, schedules, running, run>>

\* lines 654-661
DeletePipelineVersion_Write(p) ==
    /\ pc[p] = "delver_write"
    /\ \E dbOk \in BOOLEAN :
         LET w == StoreDeletePipelineVersion(DB, req[p].pipelineID,
                                             req[p].pipelineVersionID, dbOk)
         IN  /\ Commit(w.db)
             /\ IF w.err
                THEN Return(p, req[p].op, Fail(InternalError, TRUE))
                ELSE Return(p, req[p].op, [NoRes EXCEPT !.wrote = TRUE])
    /\ UNCHANGED <<schedules, running, run>>

(***************************************************************************)
(* ListPipeline                                                            *)
(***************************************************************************)
\* a listing that starts over whatever the marker
MarkerPk_Zero(marker) == [err |-> FALSE, pk |-> 0]

\* a listing that starts over when its marker does not decode
MarkerPk_Lenient(marker) ==
    IF marker = <<>> \/ DecryptPk(marker).err THEN [err |-> FALSE, pk |-> 0]
    ELSE DecryptPk(marker)

\* a listing that starts at the row of its marker, not after it
MarkerPk_Before(marker) ==
    IF marker = <<>> THEN [err |-> FALSE, pk |-> 0]
    ELSE LET m == DecryptPk(marker)
         IN  IF m.err \/ m.pk = 0 THEN m ELSE [m EXCEPT !.pk = @ - 1]

\* lines 399-409 and 494-503: the key a marker stands for; 0 for the empty marker
MarkerPk(marker) == IF marker = <<>> THEN [err |-> FALSE, pk |-> 0] ELSE DecryptPk(marker)

\* a listing restricted to the owners the caller names, whoever calls
ListUserFilter_Given(request) == request.userFilter

\* lines 411-421: the owners a listing is restricted to
ListUserFilter(request) ==
    IF ~IsRootUser(request.user) THEN {request.user} ELSE request.userFilter

\* lines 399-428: the checks before the page is read; "" when all pass
ListPipelineCheck(request, m, dbOk) ==
    IF m.err THEN InvalidMarker
    ELSE IF ~IsRootUser(request.user) /\ request.userFilter # {} THEN InvalidArguments
    ELSE IF ~dbOk THEN InternalError
    ELSE NoError

\* lines 396-436: the page of request is read for the client with paging run r
ListPipelinePage(p, request, r) ==
    /\ \E dbOk \in BOOLEAN :
         LET m == MarkerPk(request.marker)
             userFilter == ListUserFilter(request)
             code == ListPipelineCheck(request, m, dbOk)
             pipelineList == StoreListPipeline(m.pk, request.maxKeys, userFilter,
                                               request.nameFilter)
         IN  IF code # NoError
             THEN Return(p, request.op, Fail(code, ~dbOk)) /\ run' = [run EXCEPT ![p] = r]
             ELSE IF Len(pipelineList) = 0
             THEN /\ Return(p, request.op, NoRes)
                  /\ run' = [run EXCEPT ![p] = Received(r, pipelineList)]
             ELSE /\ Goto(p, "list_last",
                          [request EXCEPT !.user = "", !.marker = <<>>, !.maxKeys = 0,
                                          !.userFilter = userFilter],
                          [NoLoc EXCEPT !.list = pipelineList])
                  /\ run' = [run EXCEPT ![p] = r]
    /\ UNCHANGED <<store, schedules, running>>

\* a request for a page; a client that asks for the first page follows the markers
ListPipeline_Fetch(p, requests) ==
    /\ MayCall(p)
    /\ \E request \in requests :
         ListPipelinePage(p, request,
                          IF request.marker = <<>>
                          THEN [NoRun EXCEPT
                                  !.request = request, !.next = nextPplPk,
                                  !.start = {r.Pk : r \in MatchingPipelines(
                                      ListUserFilter(request), request.nameFilter)}]
                          ELSE NoRun)

\* the client asks for the page after the marker it received
ListPipeline_Next(p) ==
    /\ pc[p] = "done"
    /\ run[p].request.op = "ListPipeline"
    /\ res[p].IsTruncated
    /\ ListPipelinePage(p, [run[p].request EXCEPT !.marker = res[p].NextMarker], run[p])

\* a response whose marker is the key of the first row of the page
PageResponse_FirstKey(list, last) ==
    IF last.isLast THEN [NoRes EXCEPT !.list = list]
    ELSE [NoRes EXCEPT !.list = list, !.NextMarker = EncryptPk(list[1].Pk),
                       !.IsTruncated = TRUE]

\* a response that announces more rows after every page
PageResponse_AlwaysMore(list, last) ==
    [NoRes EXCEPT !.list = list, !.NextMarker = EncryptPk(list[Len(list)].Pk),
                  !.IsTruncated = TRUE]

\* lines 434-466 and 512-546: the response with the page and its marker
PageResponse(list, last) ==
    IF last.isLast THEN [NoRes EXCEPT !.list = list]
    ELSE [NoRes EXCEPT !.list = list, !.NextMarker = EncryptPk(list[Len(list)].Pk),
                       !.IsTruncated = TRUE]

\* lines 436-466
ListPipeline_Last(p) ==
    /\ pc[p] = "list_last"
    /\ \E dbOk \in BOOLEAN, strict \in BOOLEAN :
         LET pipelineList == loc[p].list
             ppl == pipelineList[Len(pipelineList)]
             last == StoreIsLastPipelinePk(ppl.Pk, req[p].userFilter, req[p].nameFilter,
                                           dbOk, strict)
         IN  IF last.err
             THEN Return(p, req[p].op, Fail(InternalError, TRUE)) /\ run' = run
             ELSE /\ Return(p, req[p].op, PageResponse(pipelineList, last))
                  /\ run' = [run EXCEPT ![p] = Received(@, pipelineList)]
    /\ UNCHANGED <<store, schedules, running>>

(***************************************************************************)
(* GetPipeline                                                             *)
(***************************************************************************)
\* lines 472-503: the checks before the versions are read; "" when all pass
GetPipelineCheck(request, g, m) ==
    IF g.status = RecordNotFound THEN InvalidArguments
    ELSE IF g.status # Found THEN InternalError
    ELSE IF ~IsRootUser(request.user) /\ request.user # g.row.UserName THEN AccessDenied
    ELSE IF m.err THEN InvalidMarker
    ELSE NoError

\* lines 468-503: the pipeline of request is read for the client with paging run r
GetPipelinePage(p, request, r) ==
    /\ \E dbOk \in BOOLEAN :
         LET g == StoreGetPipelineByID(request.pipelineID, dbOk)
             m == MarkerPk(request.marker)
             code == GetPipelineCheck(request, g, m)
         IN  IF code # NoError
             THEN Return(p, request.op, Fail(code, code = InternalError))
             ELSE Goto(p, "get_list", [request EXCEPT !.user = ""],
                       [NoLoc EXCEPT !.ppl = g.row])
    /\ run' = [run EXCEPT ![p] = r]
    /\ UNCHANGED <<store, schedules, running>>

GetPipeline_Lookup(p, requests) ==
    /\ MayCall(p)
    /\ \E request \in requests :
         GetPipelinePage(p, request,
                         IF request.marker = <<>>
                         THEN [NoRun EXCEPT
                                 !.request = request, !.next = nextVerPk,
                                 !.start = {v.Pk : v \in MatchingVersions(
                                     request.pipelineID, request.fsFilter)}]
                         ELSE NoRun)

\* the client asks for the versions after the marker it received
GetPipeline_Next(p) ==
    /\ pc[p] = "done"
    /\ run[p].request.op = "GetPipeline"
    /\ res[p].IsTruncated
    /\ GetPipelinePage(p, [run[p].request EXCEPT !.marker = res[p].NextMarker], run[p])

\* lines 505-515
GetPipeline_List(p) ==
    /\ pc[p] = "get_list"
    /\ \E dbOk \in BOOLEAN :
         LET request == req[p]
             pk == MarkerPk(request.marker).pk
             pipelineVersionList == StoreListPipelineVersion(request.pipelineID, pk,
                                        request.maxKeys, request.fsFilter)
         IN  IF ~dbOk
             THEN Return(p, request.op, Fail(InternalError, TRUE)) /\ run' = run
             ELSE IF Len(pipelineVersionList) = 0
             THEN /\ Return(p, request.op, [NoRes EXCEPT !.Pipeline = loc[p].ppl])
                  /\ run' = [run EXCEPT ![p] = Received(@, pipelineVersionList)]
             ELSE /\ Goto(p, "get_last",
                          [request EXCEPT !.marker = <<>>, !.maxKeys = 0],
                          [loc[p] EXCEPT !.list = pipelineVersionList])
                  /\ run' = run
    /\ UNCHANGED <<store, schedules, running>>

\* lines 515-547
GetPipeline_Last(p) ==
    /\ pc[p] = "get_last"
    /\ \E dbOk \in BOOLEAN, strict \in BOOLEAN :
         LET pipelineVersionList == loc[p].list
             pplVersion == pipelineVersionList[Len(pipelineVersionList)]
             last == StoreIsLastPipelineVersionPk(req[p].pipelineID, pplVersion.Pk,
                                                  req[p].fsFilter, dbOk, strict)
         IN  IF last.err
             THEN Return(p, req[p].op, Fail(InternalError, TRUE)) /\ run' = run
             ELSE /\ Return(p, req[p].op,
                            [PageResponse(pipelineVersionList, last)
                               EXCEPT !.Pipeline = loc[p].ppl])
                  /\ run' = [run EXCEPT ![p] = Received(@, pipelineVersionList)]
    /\ UNCHANGED <<store, schedules, running>>

(***************************************************************************)
(* GetPipelineVersion                                                      *)
(***************************************************************************)
\* lines 549-570
GetPipelineVersion(p, requests) ==
    /\ MayCall(p)
    /\ \E request \in requests, dbOk \in BOOLEAN :
         LET c == CheckPipelineVersionPermission(request.user, request.pipelineID,
                                                 request.pipelineVersionID, dbOk)
             code == DeletePermissionCheck(c)
         IN  IF code # NoError
             THEN Return(p, request.op, Fail(code, c.err = StoreError))
             ELSE Return(p, request.op, [NoRes EXCEPT !.Pipeline = c.ppl,
                                                      !.PipelineVersion = c.pplVersion])
    /\ UNCHANGED <<store, schedules, running, run>>

(***************************************************************************)
(* The scheduler: schedules of existing pipeline versions start and end    *)
(***************************************************************************)
CreateSchedule ==
    /\ running
    /\ Cardinality(schedules) < MaxSchedules
    /\ \E v \in versions :
         /\ \E r \in pipelines : r.ID = v.PipelineID
         /\ schedules' = schedules \cup
                {[ID |-> Cardinality(schedules) + 1, PipelineID |-> v.PipelineID,
                  PipelineVersionID |-> v.ID, Status |-> "running"]}
    /\ UNCHANGED <<store, pc, req, loc, res, running, run>>

StopSchedule ==
    /\ \E s \in schedules :
         /\ s.Status \in ScheduleNotFinalStatusList
         /\ schedules' = (schedules \ {s}) \cup {[s EXCEPT !.Status = ScheduleFinalStatus]}
    /\ UNCHANGED <<store, pc, req, loc, res, running, run>>

\* the response is delivered and the handler serves the next request
Reset(p) ==
    /\ pc[p] = "done"
    /\ pc' = [pc EXCEPT ![p] = "idle"]
    /\ req' = [req EXCEPT ![p] = NoReq]
    /\ res' = [res EXCEPT ![p] = NoRes]
    /\ UNCHANGED <<store, schedules, loc, running>>
    /\ run' = [run EXCEPT ![p] = NoRun]

\* from here on the requests arrive concurrently
Start ==
    /\ ~running
    /\ \A p \in Procs : pc[p] = "idle"
    /\ running' = TRUE
    /\ UNCHANGED <<store, schedules, pc, req, loc, res, run>>

(***************************************************************************)
(* Specifications                                                          *)
(***************************************************************************)
InitState ==
    /\ pipelines = {}
    /\ versions = {}
    /\ nextPplPk = 1
    /\ nextVerPk = 1
    /\ schedules = {}
    /\ pc = [p \in Procs |-> "idle"]
    /\ req = [p \in Procs |-> NoReq]
    /\ loc = [p \in Procs |-> NoLoc]
    /\ res = [p \in Procs |-> NoRes]
    /\ run = [p \in Procs |-> NoRun]

\* the requests that fill the store before the concurrent ones: pipelines
\* named a, created from inline payloads
SetupCreates == CreateRequests(Users, {f \in RawForms : f.YamlRaw = "b64_a"}, {"d1"})
\* the update requests that arrive concurrently
RunUpdates ==
    UpdateRequests(Users, {f \in RawForms : f.YamlRaw # "not base64"}, {"d2"})
    \cup UpdateRequests(Users, {f \in RawForms : f.YamlRaw = "b64_a"}, {LongDesc})

Init == InitState /\ running = FALSE

Next ==
    \/ \E p \in Procs : ~running /\ CreatePipeline_Check(p, SetupCreates)
                                 /\ InBounds(MaxPipelines, MaxVersions)
    \/ Start
    \/ \E p \in Procs : CreatePipeline_Write(p)
    \/ \E p \in Procs : running /\ UpdatePipeline_Check(p, RunUpdates)
                                /\ InBounds(MaxPipelines, MaxVersions)
    \/ \E p \in Procs : UpdatePipeline_Write(p)
    \/ \E p \in Procs : running /\ DeletePipeline_Permission(p, DeleteRequests)
    \/ \E p \in Procs : DeletePipeline_Guard(p)
    \/ \E p \in Procs : DeletePipeline_Write(p)
    \/ \E p \in Procs : running /\ DeletePipelineVersion_Permission(p, DeleteVersionRequests)
    \/ \E p \in Procs : DeletePipelineVersion_Count(p)
    \/ \E p \in Procs : DeletePipelineVersion_Guard(p)
    \/ \E p \in Procs : DeletePipelineVersion_Write(p)
    \/ \E p \in Procs : Reset(p)
    \/ CreateSchedule
    \/ StopSchedule

Spec == Init /\ [][Next]_vars

(***************************************************************************)
(* Concurrent CreatePipeline requests on an empty store                    *)
(***************************************************************************)
AllCreates == CreateRequests(Users, RawForms \cup FsForms \cup BadForms, {"d1", LongDesc})

InitCreate == InitState /\ running = TRUE

NextCreate ==
    \/ \E p \in Procs : CreatePipeline_Check(p, AllCreates)
                        /\ InBounds(MaxPipelines, MaxVersions)
    \/ \E p \in Procs : CreatePipeline_Write(p)
    \/ \E p \in Procs : Reset(p)

SpecCreate == InitCreate /\ [][NextCreate]_vars

(***************************************************************************)
(* Concurrent CreatePipeline and UpdatePipeline requests with every form   *)
(* of source                                                               *)
(***************************************************************************)
SourceForms ==
    {f \in RawForms : f.YamlRaw = "b64_a"}
    \cup {f \in FsForms : f.YamlPath # MissingYamlPath} \cup BadForms
SourceCreates == CreateRequests({"alice"}, SourceForms, {"d1"})
SourceUpdates == UpdateRequests({"alice"}, SourceForms, {"d1"})

NextSource ==
    \/ \E p \in Procs : CreatePipeline_Check(p, SourceCreates)
                        /\ InBounds(MaxPipelines, MaxVersions)
    \/ \E p \in Procs : CreatePipeline_Write(p)
    \/ \E p \in Procs : UpdatePipeline_Check(p, SourceUpdates)
                        /\ InBounds(MaxPipelines, MaxVersions)
    \/ \E p \in Procs : UpdatePipeline_Write(p)
    \/ \E p \in Procs : Reset(p)

SpecSource == InitCreate /\ [][NextSource]_vars

(***************************************************************************)
(* A client that pages through the listings while a writer creates and     *)
(* deletes pipelines                                                       *)
(***************************************************************************)
Reader == "r1"
Writer == "r2"

PagingCreates ==
    CreateRequests(Users, {f \in RawForms : f.YamlRaw \in {"b64_a", "b64_b"}}, {"d1"})
WriterCreates ==
    CreateRequests({RootUserName}, {f \in RawForms : f.YamlRaw = "b64_a"}, {"d1"})
PagingUpdates ==
    { [r EXCEPT !.op = "UpdatePipeline", !.pipelineID = id] :
        r \in CreateRequests({RootUserName}, {f \in FsForms : f.YamlPath = ""}, {"d1"}),
        id \in 1..PagePipelines }
PagingDeletes ==
    { [NoReq EXCEPT !.op = "DeletePipeline", !.user = RootUserName, !.pipelineID = id] :
        id \in 1..PagePipelines }
Markers == {<<>>, BadMarker}
PagingLists ==
    ListRequests(Users, Markers, 1..MaxKeys, {{}}, {{}, {"a"}})
    \cup ListRequests(Users, Markers, 1..MaxKeys, {{"alice"}}, {{}})
PagingGets ==
    { [NoReq EXCEPT !.op = "GetPipeline", !.user = u, !.pipelineID = id, !.marker = m,
                    !.maxKeys = k, !.fsFilter = ff] :
        u \in Users, id \in 1..PagePipelines, m \in Markers, k \in 1..MaxKeys,
        ff \in {{}, {"fs1"}} }

InitPaging == InitState /\ running = FALSE

NextPaging ==
    \/ \E p \in Procs : ~running /\ CreatePipeline_Check(p, PagingCreates)
                                 /\ InBounds(PagePipelines, PageVersions)
    \/ \E p \in Procs : ~running /\ UpdatePipeline_Check(p, PagingUpdates)
                                 /\ InBounds(PagePipelines, PageVersions)
    \/ Start
    \/ running /\ CreatePipeline_Check(Writer, WriterCreates)
               /\ InBounds(PagePipelines, PageVersions)
    \/ \E p \in Procs : CreatePipeline_Write(p)
    \/ \E p \in Procs : UpdatePipeline_Write(p)
    \/ running /\ DeletePipeline_Permission(Writer, PagingDeletes)
    \/ DeletePipeline_Guard(Writer)
    \/ DeletePipeline_Write(Writer)
    \/ running /\ ListPipeline_Fetch(Reader, PagingLists)
    \/ ListPipeline_Next(Reader)
    \/ ListPipeline_Last(Reader)
    \/ running /\ GetPipeline_Lookup(Reader, PagingGets)
    \/ GetPipeline_Next(Reader)
    \/ GetPipeline_List(Reader)
    \/ GetPipeline_Last(Reader)
    \/ running /\ GetPipelineVersion(Reader, GetVersionRequests)
    \/ \E p \in Procs : Reset(p)

SpecPaging == InitPaging /\ [][NextPaging]_vars

(***************************************************************************)
(* Concurrent requests of every kind that looks a pipeline up, on a store  *)
(* without schedules                                                       *)
(***************************************************************************)
AccessUpdates ==
    UpdateRequests(Users, {f \in RawForms : f.YamlRaw \in {"b64_a", "b64_b"}}, {"d2"})
AccessGets ==
    { [NoReq EXCEPT !.op = "GetPipeline", !.user = u, !.pipelineID = id, !.marker = m,
                    !.maxKeys = 1] :
        u \in Users, id \in PplIDs, m \in {BadMarker, EncryptPk(0)} }

NextAccess ==
    \/ \E p \in Procs : ~running /\ CreatePipeline_Check(p, SetupCreates)
                                 /\ InBounds(MaxPipelines, MaxVersions)
    \/ Start
    \/ \E p \in Procs : CreatePipeline_Write(p)
    \/ \E p \in Procs : running /\ UpdatePipeline_Check(p, AccessUpdates)
                                /\ InBounds(MaxPipelines, MaxVersions)
    \/ \E p \in Procs : UpdatePipeline_Write(p)
    \/ \E p \in Procs : running /\ DeletePipeline_Permission(p, DeleteRequests)
    \/ \E p \in Procs : DeletePipeline_Guard(p)
    \/ \E p \in Procs : DeletePipeline_Write(p)
    \/ \E p \in Procs : running /\ DeletePipelineVersion_Permission(p, DeleteVersionRequests)
    \/ \E p \in Procs : DeletePipelineVersion_Count(p)
    \/ \E p \in Procs : DeletePipelineVersion_Guard(p)
    \/ \E p \in Procs : DeletePipelineVersion_Write(p)
    \/ \E p \in Procs : running /\ GetPipeline_Lookup(p, AccessGets)
    \/ \E p \in Procs : GetPipeline_List(p)
    \/ \E p \in Procs : GetPipeline_Last(p)
    \/ \E p \in Procs : running /\ GetPipelineVersion(p, GetVersionRequests)
    \/ \E p \in Procs : Reset(p)

SpecAccess == Init /\ [][NextAccess]_vars

(***************************************************************************)
(* Concurrent requests of all seven operations on a store without          *)
(* schedules                                                               *)
(***************************************************************************)
FrameLists == ListRequests(Users, {BadMarker, EncryptPk(0)}, {1}, {{}}, {{}})

NextFrame ==
    \/ NextAccess
    \/ \E p \in Procs : running /\ ListPipeline_Fetch(p, FrameLists)
    \/ \E p \in Procs : ListPipeline_Last(p)

SpecFrame == Init /\ [][NextFrame]_vars

(***************************************************************************)
(* A client that follows the markers of a listing to its end on a store    *)
(* into which nothing is inserted meanwhile; a writer deletes pipelines    *)
(***************************************************************************)
FollowLists == ListRequests({RootUserName}, {<<>>}, 1..MaxKeys, {{}}, {{}})
FollowGets ==
    { [NoReq EXCEPT !.op = "GetPipeline", !.user = RootUserName, !.pipelineID = id,
                    !.maxKeys = k] :
        id \in 1..PagePipelines, k \in 1..MaxKeys }

\* the steps of the reader: its handler runs on, and the client asks for the
\* next page whenever it received a marker
ReaderStep ==
    \/ ListPipeline_Next(Reader)
    \/ ListPipeline_Last(Reader)
    \/ GetPipeline_Next(Reader)
    \/ GetPipeline_List(Reader)
    \/ GetPipeline_Last(Reader)

NextFollow ==
    \/ \E p \in Procs : ~running /\ CreatePipeline_Check(p, PagingCreates)
                                 /\ InBounds(PagePipelines, PageVersions)
    \/ \E p \in Procs : ~running /\ UpdatePipeline_Check(p, PagingUpdates)
                                 /\ InBounds(PagePipelines, PageVersions)
    \/ Start
    \/ \E p \in Procs : CreatePipeline_Write(p)
    \/ \E p \in Procs : UpdatePipeline_Write(p)
    \/ running /\ DeletePipeline_Permission(Writer, PagingDeletes)
    \/ DeletePipeline_Guard(Writer)
    \/ DeletePipeline_Write(Writer)
    \/ running /\ ListPipeline_Fetch(Reader, FollowLists)
    \/ running /\ GetPipeline_Lookup(Reader, FollowGets)
    \/ ReaderStep
    \/ \E p \in Procs : Reset(p) /\ ~res[p].IsTruncated

SpecFollow == InitPaging /\ [][NextFollow]_vars /\ WF_vars(ReaderStep)

(***************************************************************************)
(* Properties of create, update and delete                                 *)
(***************************************************************************)
\* the name of the workflow a create request carries, "" when it carries none
ResolvedName(request) ==
    validateWorkflowForPipeline(getPipelineYaml(request.user, request, TRUE).yaml).name

\* a create request that fails none of the checks before the lookup of its name
ValidCreate(request) == request.Desc # LongDesc /\ ResolvedName(request) # ""

\* C19: a CreatePipeline that succeeds adds one pipeline row and one version
\* row of that pipeline, both of the caller, with keys greater than every key
\* assigned before, returns their ids and the validated name, and keeps every
\* other row; and no step changes the key of a stored row or lowers the next
\* key of a table.
C19_CreateAddsOnePipeline ==
    [][ /\ \A p \in Procs :
             pc[p] = "create_write" /\ pc'[p] = "done" /\ ~res'[p].err =>
               \E r \in pipelines' \ pipelines, v \in versions' \ versions :
                   /\ pipelines' = pipelines \cup {r} /\ versions' = versions \cup {v}
                   /\ v.PipelineID = r.ID
                   /\ r.UserName = req[p].user /\ v.UserName = req[p].user
                   /\ r.Name = loc[p].pplName /\ r.Name # ""
                   /\ res'[p].PipelineID = r.ID /\ res'[p].PipelineVersionID = v.ID
                   /\ res'[p].Name = r.Name
                   /\ r.Pk >= nextPplPk /\ nextPplPk' > r.Pk
                   /\ v.Pk >= nextVerPk /\ nextVerPk' > v.Pk
                   /\ \A o \in pipelines : o.Pk < r.Pk
                   /\ \A o \in versions : o.Pk < v.Pk
        /\ nextPplPk' >= nextPplPk /\ nextVerPk' >= nextVerPk
        /\ \A r \in pipelines, t \in pipelines' : r.ID = t.ID => r.Pk = t.Pk
        /\ \A v \in versions, t \in versions' : v.ID = t.ID => v.Pk = t.Pk ]_vars

\* C19 witness: the second create, of alice, returned the ids of its rows
\* while the rows of the first are stored
C19_Witness ==
    \E p \in Procs :
        /\ pc[p] = "done" /\ req[p].op = "CreatePipeline" /\ res[p].wrote
        /\ res[p].PipelineID = 2 /\ res[p].PipelineVersionID = 2 /\ res[p].Name = "a"
        /\ Cardinality(pipelines) = 2 /\ Cardinality(versions) = 2
        /\ \E r \in pipelines : r.ID = 2 /\ r.UserName = "alice"

\* the user has a stored pipeline of that name
Owns(userName, name) == \E r \in pipelines : r.Name = name /\ r.UserName = userName

\* the call of handler p ended on a failure of the store, or of the lookup of
\* the filesystem the request names
Unserved(p, request) ==
    \/ res'[p].fault
    \/ request.FsName # "" /\ res'[p].code = InvalidArguments

UniqueNames ==
    \A r1, r2 \in pipelines : r1.Name = r2.Name /\ r1.UserName = r2.UserName => r1 = r2

\* C1: a CreatePipeline whose name the caller already has ends with
\* DuplicatedName and leaves the tables as they are; one whose name only other
\* owners have passes the lookup and, when the name is still free at the write,
\* stores the pipeline; so no two stored pipelines share owner and name.
C1_DuplicateNameRejected ==
    [][ /\ \A p \in Procs, request \in AllCreates :
             pc[p] = "idle" /\ pc'[p] # "idle" /\ ValidCreate(request)
               /\ CreatePipeline_Check(p, {request}) =>
               IF Owns(request.user, ResolvedName(request))
               THEN /\ pc'[p] = "done" /\ res'[p].err /\ UNCHANGED store
                    /\ res'[p].code = DuplicatedName \/ Unserved(p, request)
               ELSE pc'[p] = "create_write" \/ Unserved(p, request)
        /\ \A p \in Procs :
             pc[p] = "create_write" /\ pc'[p] = "done"
               /\ ~Owns(req[p].user, loc[p].pplName) /\ ~res'[p].fault =>
                 /\ ~res'[p].err /\ res'[p].PipelineID = nextPplPk
                 /\ pipelines' = pipelines \cup
                      {[Pk |-> nextPplPk, ID |-> nextPplPk, Name |-> loc[p].pplName,
                        Desc |-> req[p].Desc, UserName |-> req[p].user]}
        /\ UniqueNames' ]_vars

\* C1 witness: a create was refused for its name while two owners hold
\* pipelines of one name
C1_Witness ==
    \E p \in Procs :
        /\ req[p].op = "CreatePipeline" /\ res[p].code = DuplicatedName
        /\ \E r1, r2 \in pipelines : r1.Name = r2.Name /\ r1.UserName # r2.UserName

\* C2: of two concurrent creates of one (owner, name) the one that reaches the
\* store second ends with DuplicatedName, not InternalError, and stores nothing.
C2_ConcurrentDuplicateCreate ==
    [][ \A p \in Procs :
          pc[p] = "create_write" /\ pc'[p] = "done" /\ Owns(req[p].user, loc[p].pplName) =>
            res'[p].code = DuplicatedName /\ UNCHANGED store ]_vars

\* C2 witness: two creates of one (owner, name) are both past the lookup
C2_Witness ==
    \E p, q \in Procs :
        /\ p # q /\ pc[p] = "create_write" /\ pc[q] = "create_write"
        /\ req[p].user = req[q].user /\ loc[p].pplName = loc[q].pplName

\* C3: every stored pipeline has at least one version.
C3_EveryPipelineHasVersion ==
    \A r \in pipelines : \E v \in versions : v.PipelineID = r.ID

\* C3 witness: two deletes of the two versions of one pipeline are both past
\* the count of its versions
C3_Witness ==
    \E p, q \in Procs :
        /\ pc[p] = "delver_guard" /\ pc[q] = "delver_guard"
        /\ req[p].pipelineID = req[q].pipelineID
        /\ req[p].pipelineVersionID # req[q].pipelineVersionID
        /\ StoreCountPipelineVersion(req[p].pipelineID) = 2

Referencing(pipelineID) ==
    {s \in schedules : s.PipelineID = pipelineID /\ s.Status \in ScheduleNotFinalStatusList}
ReferencingVersion(pipelineID, pipelineVersionID) ==
    {s \in Referencing(pipelineID) : s.PipelineVersionID = pipelineVersionID}

\* the call of handler p was refused and left the tables as they are
Refused(p) ==
    /\ pc'[p] = "done" /\ res'[p].err /\ UNCHANGED store
    /\ res'[p].code = ActionNotAllowed \/ res'[p].fault

\* C5: past the permission check (and the last-version guard), DeletePipeline
\* is refused with ActionNotAllowed when a non-final schedule references the
\* pipeline, DeletePipelineVersion when one references the version; otherwise
\* the delete goes to the store and, unless the store fails, removes the rows.
C5_ScheduleGuards ==
    [][ \A p \in Procs :
          /\ pc[p] = "delete_guard" /\ pc'[p] # "delete_guard" =>
               IF Referencing(req[p].pipelineID) # {} THEN Refused(p)
               ELSE pc'[p] = "delete_write" \/ res'[p].fault
          /\ pc[p] = "delete_write" /\ pc'[p] # "delete_write" =>
               \/ res'[p].fault /\ UNCHANGED store
               \/ /\ ~res'[p].err
                  /\ pipelines' = {r \in pipelines : r.ID # req[p].pipelineID}
                  /\ versions' = {v \in versions : v.PipelineID # req[p].pipelineID}
          /\ pc[p] = "delver_guard" /\ pc'[p] # "delver_guard" =>
               IF ReferencingVersion(req[p].pipelineID, req[p].pipelineVersionID) # {}
               THEN Refused(p)
               ELSE pc'[p] = "delver_write" \/ res'[p].fault
          /\ pc[p] = "delver_write" /\ pc'[p] # "delver_write" =>
               \/ res'[p].fault /\ UNCHANGED store
               \/ /\ ~res'[p].err
                  /\ pipelines' = pipelines
                  /\ versions' = {v \in versions :
                                    ~(v.PipelineID = req[p].pipelineID
                                      /\ v.ID = req[p].pipelineVersionID)} ]_vars

\* C5 witness: one DeletePipeline was refused, and one removed a pipeline that
\* a schedule, now in a final status, references
C5_Witness ==
    \E p, q \in Procs :
        /\ req[p].op = "DeletePipeline" /\ res[p].code = ActionNotAllowed
        /\ req[q].op = "DeletePipeline" /\ res[q].wrote
        /\ \E s \in schedules :
             /\ s.Status = ScheduleFinalStatus
             /\ \A r \in pipelines : r.ID # s.PipelineID

\* schedule s references a pipeline, or a version, that is not among the rows
Dangling(s, ppls, vers) ==
    \/ \A r \in ppls : r.ID # s.PipelineID
    \/ \A v \in vers : ~(v.PipelineID = s.PipelineID /\ v.ID = s.PipelineVersionID)

\* C18: the deletes are applied without a second look at the schedules: past
\* its guard, DeletePipeline removes the pipeline, and DeletePipelineVersion
\* the version, also when a non-final schedule that was created since the
\* guard read none references it, unless the store fails; and a non-final
\* schedule comes to reference a deleted pipeline or version in no other way
\* than by such a delete of what it references.
C18_DeletesNotFenced ==
    [][ /\ \A p \in Procs :
             /\ pc[p] = "delete_write" /\ pc'[p] = "done" /\ ~res'[p].fault
                   /\ Referencing(req[p].pipelineID) # {} =>
                   /\ res'[p].wrote
                   /\ \A s \in Referencing(req[p].pipelineID) :
                        s \in schedules' /\ Dangling(s, pipelines', versions')
             /\ pc[p] = "delver_write" /\ pc'[p] = "done" /\ ~res'[p].fault
                   /\ ReferencingVersion(req[p].pipelineID, req[p].pipelineVersionID) # {} =>
                   /\ res'[p].wrote
                   /\ \A s \in ReferencingVersion(req[p].pipelineID,
                                                  req[p].pipelineVersionID) :
                        s \in schedules' /\ Dangling(s, pipelines', versions')
        /\ \A s \in schedules' :
             /\ s.Status \in ScheduleNotFinalStatusList
             /\ Dangling(s, pipelines', versions')
             /\ ~(s \in schedules /\ Dangling(s, pipelines, versions))
             => /\ s \in schedules
                /\ \E p \in Procs :
                     /\ pc[p] \in {"delete_write", "delver_write"} /\ pc'[p] = "done"
                     /\ res'[p].wrote /\ req[p].pipelineID = s.PipelineID ]_vars

\* C18 witness: the one pipeline ever created was deleted by a DeletePipeline
\* that succeeded, and a schedule with a non-final status references it
C18_Witness ==
    /\ nextPplPk = 2 /\ pipelines = {}
    /\ \E s \in schedules : s.Status \in ScheduleNotFinalStatusList
    /\ \E p \in Procs : pc[p] = "done" /\ req[p].op = "DeletePipeline" /\ res[p].wrote

\* C20: the guard of DeletePipeline refuses when a non-final schedule
\* references any version of the pipeline; the guard of DeletePipelineVersion
\* lets the delete of a version pass when the non-final schedules of the
\* pipeline reference other versions only, and refuses when one references the
\* version; the delete that follows removes that version row and nothing else.
C20_GuardScopes ==
    [][ \A p \in Procs :
          /\ pc[p] = "delete_guard" /\ pc'[p] # "delete_guard"
                /\ (\E s \in Referencing(req[p].pipelineID) :
                       s.PipelineVersionID \in VerIDs) =>
                /\ pc'[p] = "done" /\ res'[p].err /\ UNCHANGED store
                /\ res'[p].code = ActionNotAllowed \/ res'[p].fault
          /\ pc[p] = "delver_guard" /\ pc'[p] # "delver_guard" =>
                IF ReferencingVersion(req[p].pipelineID, req[p].pipelineVersionID) = {}
                THEN pc'[p] = "delver_write" \/ res'[p].fault
                ELSE /\ pc'[p] = "done" /\ UNCHANGED store
                     /\ res'[p].code = ActionNotAllowed \/ res'[p].fault
          /\ pc[p] = "delver_write" /\ pc'[p] = "done" /\ ~res'[p].err =>
                /\ versions' = {v \in versions :
                                  v.PipelineID # req[p].pipelineID
                                    \/ v.ID # req[p].pipelineVersionID}
                /\ Cardinality(versions \ versions') <= 1
                /\ UNCHANGED <<pipelines, nextPplPk, nextVerPk, schedules>> ]_vars

\* C20 witness: of the one pipeline ever created, with a running schedule, a
\* DeletePipeline was refused and a DeletePipelineVersion removed a version;
\* the schedule references a version that is stored
C20_Witness ==
    \E p, q \in Procs :
        /\ nextPplPk = 2 /\ Cardinality(pipelines) = 1
        /\ pc[p] = "done" /\ req[p].op = "DeletePipeline"
        /\ res[p].code = ActionNotAllowed
        /\ pc[q] = "done" /\ req[q].op = "DeletePipelineVersion" /\ res[q].wrote
        /\ Cardinality(versions) < nextVerPk - 1
        /\ \E s \in schedules :
              /\ s.Status \in ScheduleNotFinalStatusList
              /\ \E v \in versions : v.ID = s.PipelineVersionID

\* C6: an UpdatePipeline that succeeds adds exactly one version, of its
\* pipeline, keeps every other version, and changes nothing of any pipeline
\* but the description of its own.
C6_UpdateAddsOneVersion ==
    [][ \A p \in Procs :
          pc[p] = "update_write" /\ pc'[p] = "done" /\ ~res'[p].err =>
            /\ versions \subseteq versions'
            /\ Cardinality(versions' \ versions) = 1
            /\ \A v \in versions' \ versions :
                 v.PipelineID = req[p].pipelineID /\ v.ID = res'[p].PipelineVersionID
            /\ Cardinality(pipelines') = Cardinality(pipelines)
            /\ \A r \in pipelines :
                 IF r.ID = req[p].pipelineID
                 THEN [r EXCEPT !.Desc = loc[p].ppl.Desc] \in pipelines'
                 ELSE r \in pipelines' ]_vars

\* C6 witness: an update succeeded on one of two pipelines: its description
\* is the new one, the other pipeline has the old one
C6_Witness ==
    \E p \in Procs :
        /\ req[p].op = "UpdatePipeline" /\ res[p].wrote
        /\ Cardinality(pipelines) = 2 /\ Cardinality(versions) = 3
        /\ \E r1, r2 \in pipelines :
             /\ r1.ID = res[p].PipelineID /\ r1.Desc = "d2"
             /\ r2.ID # r1.ID /\ r2.Desc = "d1"

\* the caller is root or the owner of the stored pipeline
Authorized(userName, pipelineID) ==
    \E r \in pipelines :
        r.ID = pipelineID /\ (IsRootUser(userName) \/ r.UserName = userName)

\* handler p moves on to position to
Enters(p, to) == pc[p] # to /\ pc'[p] = to

\* C10: the tables change only in the write step of a handler; UpdatePipeline
\* reaches its write only with the caller authorized and the name matching,
\* DeletePipeline only through an authorized caller and then a passing
\* schedule guard, DeletePipelineVersion only through an authorized caller,
\* then a count other than one, then a passing schedule guard.
C10_WritesAfterChecks ==
    [][ /\ store' # store =>
             \E p \in Procs :
                 /\ pc[p] \in {"create_write", "update_write", "delete_write", "delver_write"}
                 /\ pc'[p] = "done"
        /\ \A p \in Procs :
             /\ Enters(p, "update_write") =>
                  /\ pc[p] = "idle"
                  /\ Authorized(req'[p].user, req'[p].pipelineID)
                  /\ \E r \in pipelines :
                       r.ID = req'[p].pipelineID /\ r.Name = loc'[p].pplName
             /\ Enters(p, "delete_guard") =>
                  /\ pc[p] = "idle"
                  /\ \A request \in DeleteRequests :
                       DeletePipeline_Permission(p, {request}) =>
                         Authorized(request.user, request.pipelineID)
             /\ Enters(p, "delete_write") =>
                  pc[p] = "delete_guard" /\ Referencing(req[p].pipelineID) = {}
             /\ Enters(p, "delver_count") =>
                  /\ pc[p] = "idle"
                  /\ \A request \in DeleteVersionRequests :
                       DeletePipelineVersion_Permission(p, {request}) =>
                         /\ Authorized(request.user, request.pipelineID)
                         /\ \E v \in versions :
                              /\ v.PipelineID = request.pipelineID
                              /\ v.ID = request.pipelineVersionID
             /\ Enters(p, "delver_guard") =>
                  /\ pc[p] = "delver_count"
                  /\ StoreCountPipelineVersion(req[p].pipelineID) # 1
             /\ Enters(p, "delver_write") =>
                  /\ pc[p] = "delver_guard"
                  /\ ReferencingVersion(req[p].pipelineID, req[p].pipelineVersionID) = {} ]_vars

\* C10 witness: a DeletePipelineVersion of a pipeline of alice went through
\* its checks and removed the version
C10_Witness ==
    \E p \in Procs :
        /\ req[p].op = "DeletePipelineVersion" /\ res[p].wrote
        /\ Cardinality(versions) < nextVerPk - 1
        /\ \E r \in pipelines : r.UserName # RootUserName

(***************************************************************************)
(* Properties of the listings                                              *)
(***************************************************************************)
\* the keys of the rows the request of a paging run selects now, and the
\* next key of their table
Selected(r) ==
    IF r.request.op = "ListPipeline"
    THEN {x.Pk : x \in MatchingPipelines(ListUserFilter(r.request), r.request.nameFilter)}
    ELSE {v.Pk : v \in MatchingVersions(r.request.pipelineID, r.request.fsFilter)}
NextKey(r) == IF r.request.op = "ListPipeline" THEN nextPplPk ELSE nextVerPk

\* no selected row was created or deleted since the first page was asked for
Static(r) == Selected(r) = r.start /\ NextKey(r) = r.next

\* the client of handler p has received a page without a marker: its run ended
RunEnded(p) ==
    /\ run[p].request.op # "" /\ pc[p] = "done"
    /\ ~res[p].err /\ ~res[p].IsTruncated

RECURSIVE Ascending(_)
Ascending(keys) ==
    IF keys = {} THEN <<>>
    ELSE LET k == CHOOSE x \in keys : \A y \in keys : x <= y
         IN  <<k>> \o Ascending(keys \ {k})

KeysOf(seq) == {seq[i] : i \in 1..Len(seq)}
NoDuplicates(seq) == \A i, j \in 1..Len(seq) : i # j => seq[i] # seq[j]

\* C7: over tables that do not change, a client that starts with the empty
\* marker and follows the markers of ListPipeline, or of GetPipeline, until a
\* page comes without one has received every row its filters select exactly
\* once, in ascending order of the keys.
C7_PagingReturnsEveryRowOnce ==
    \A p \in Procs :
        RunEnded(p) /\ Static(run[p]) => run[p].acc = Ascending(run[p].start)

\* C7 witness: a listing of three pipelines ended after two pages
C7_Witness ==
    \E p \in Procs :
        /\ RunEnded(p) /\ Static(run[p]) /\ run[p].request.op = "ListPipeline"
        /\ run[p].pages = 2 /\ Len(run[p].acc) = 3

\* the page handler p returns carries a marker, the encrypted key of its last
\* row, exactly when the filters select a row with a greater key
ExactMarker(p, keys) ==
    LET lastPk == loc[p].list[Len(loc[p].list)].Pk
        more == \E k \in keys : k > lastPk
    IN  /\ res'[p].IsTruncated <=> more
        /\ res'[p].NextMarker # <<>> <=> more
        /\ more => res'[p].NextMarker = EncryptPk(lastPk)

\* handler p returns a page of pipelines, or of versions
ReturnsPipelines(p) == pc[p] = "list_last" /\ pc'[p] = "done" /\ ~res'[p].err
ReturnsVersions(p) == pc[p] = "get_last" /\ pc'[p] = "done" /\ ~res'[p].err
\* handler p returns an empty page
ReturnsNothing(p) ==
    /\ pc'[p] = "done" /\ ~res'[p].err
    /\ req'[p].op \in {"ListPipeline", "GetPipeline"}
    /\ \/ pc[p] \in {"idle", "get_list"}
       \/ pc[p] = "done" /\ run'[p].pages > run[p].pages

\* C8 as stated: a page of ListPipeline, or of versions of GetPipeline, has
\* IsTruncated and a marker exactly when a row with a key greater than that
\* of its last row satisfies the filters.
C8_TruncatedIffMoreRows ==
    [][ \A p \in Procs :
          /\ ReturnsPipelines(p) =>
               ExactMarker(p, {r.Pk : r \in MatchingPipelines(req[p].userFilter,
                                                              req[p].nameFilter)})
          /\ ReturnsVersions(p) =>
               ExactMarker(p, {v.Pk : v \in MatchingVersions(req[p].pipelineID,
                                                             req[p].fsFilter)})
          /\ ReturnsNothing(p) => ~res'[p].IsTruncated /\ res'[p].NextMarker = <<>> ]_vars

\* C8 amended: the same, for a page whose last row is still stored when the
\* handler asks the store whether its key is the last.
C8_TruncatedIffMoreRowsWhileLastRowStays ==
    [][ \A p \in Procs :
          /\ ReturnsPipelines(p)
               /\ (\E r \in pipelines : r.Pk = loc[p].list[Len(loc[p].list)].Pk) =>
               ExactMarker(p, {r.Pk : r \in MatchingPipelines(req[p].userFilter,
                                                              req[p].nameFilter)})
          /\ ReturnsVersions(p)
               /\ (\E v \in versions : v.Pk = loc[p].list[Len(loc[p].list)].Pk) =>
               ExactMarker(p, {v.Pk : v \in MatchingVersions(req[p].pipelineID,
                                                             req[p].fsFilter)})
          /\ ReturnsNothing(p) => ~res'[p].IsTruncated /\ res'[p].NextMarker = <<>> ]_vars

\* C8 witness: a page with fewer rows than asked for and without a marker
\* follows a page with one
C8_Witness ==
    \E p \in Procs :
        /\ RunEnded(p) /\ run[p].pages = 2 /\ run[p].request.maxKeys = 2
        /\ Len(res[p].list) = 1 /\ Len(run[p].acc) = 3

\* C9: while pipelines are created, and deleted, a client that follows the
\* markers of ListPipeline receives no pipeline twice, and by the page
\* without a marker it has received every pipeline its filters selected when
\* it asked for the first page and that is still stored.
C9_PagingUnderCreates ==
    \A p \in Procs :
        run[p].request.op = "ListPipeline" =>
          /\ NoDuplicates(run[p].acc)
          /\ RunEnded(p) =>
               \A k \in run[p].start :
                   (\E r \in pipelines : r.Pk = k) => k \in KeysOf(run[p].acc)

\* C9 witness: a listing ended after it returned a pipeline created after
\* its first page was asked for, along with the earlier ones
C9_Witness ==
    \E p \in Procs :
        /\ RunEnded(p) /\ run[p].request.op = "ListPipeline"
        /\ run[p].start # {} /\ run[p].start \subseteq KeysOf(run[p].acc)
        /\ \E k \in KeysOf(run[p].acc) : k >= run[p].next

\* the keys the markers are checked for
MarkerKeys == 0..120
\* decrypting the encrypted key gives the key
RoundTrip ==
    \A k \in MarkerKeys : DecryptPk(EncryptPk(k)) = [err |-> FALSE, pk |-> k]

\* handler p reads a page for a client that follows the markers
ReadsPage(p) ==
    \/ /\ pc[p] \in {"idle", "done"}
       /\ req'[p].op = "ListPipeline" /\ run'[p].request.op = "ListPipeline"
       /\ \/ pc'[p] = "list_last"
          \/ pc'[p] = "done" /\ ~res'[p].err /\ run'[p].pages > run[p].pages
    \/ /\ pc[p] = "get_list" /\ run[p].request.op = "GetPipeline"
       /\ \/ pc'[p] = "get_last"
          \/ pc'[p] = "done" /\ ~res'[p].err
\* the keys of the rows of that page
PageKeys(p) ==
    LET list == IF pc'[p] = "done" THEN res'[p].list ELSE loc'[p].list
    IN  [i \in 1..Len(list) |-> list[i].Pk]
\* the key of the last row the client has received, 0 before the first page
LastKey(r) == IF r.acc = <<>> THEN 0 ELSE r.acc[Len(r.acc)]

\* the requests for a page with a marker that does not decode
Undecodable(requests) ==
    {request \in requests : request.marker # <<>> /\ DecryptPk(request.marker).err}
UndecodableLists == Undecodable(PagingLists)
UndecodableGets == Undecodable(PagingGets)

\* the request fails on its marker and returns no row
FailsOnMarker(p) ==
    /\ pc'[p] = "done" /\ res'[p].err
    /\ res'[p].code = InvalidMarker /\ res'[p].list = <<>>

\* C17: decrypting the encrypted key k gives k; a page read with the empty
\* marker, or with the NextMarker of the page before, holds the first MaxKeys
\* selected rows with a key greater than 0, or than the key of the last row
\* of the page before; a request with a marker that does not decode fails
\* with InvalidMarker and returns no row.
C17_MarkersResume ==
    [][ /\ RoundTrip
        /\ \A p \in Procs :
             /\ ReadsPage(p) =>
                   PageKeys(p) =
                     Limit(Ascending({k \in Selected(run'[p]) : k > LastKey(run[p])}),
                           run'[p].request.maxKeys)
             /\ pc[p] = "idle" /\ req'[p].op = "ListPipeline" =>
                   \A request \in UndecodableLists :
                       ListPipeline_Fetch(p, {request}) => FailsOnMarker(p)
             /\ pc[p] = "idle" /\ req'[p].op = "GetPipeline" =>
                   \A request \in UndecodableGets :
                       /\ Authorized(request.user, request.pipelineID)
                       /\ GetPipeline_Lookup(p, {request}) /\ ~res'[p].fault
                       => FailsOnMarker(p) ]_vars

\* C17 witness: a client that asked for pages of one row received, with the
\* marker of its first page, a second and last page with the next row
C17_Witness ==
    \E p \in Procs :
        /\ pc[p] = "done" /\ ~res[p].err /\ run[p].pages = 2
        /\ run[p].request.maxKeys = 1 /\ run[p].acc = <<1, 2>>
        /\ ~res[p].IsTruncated

\* the pipelines of the caller of the listing of paging run r that its name
\* filter selects
OwnPipelines(r) ==
    {x \in pipelines : /\ x.UserName = r.request.user
                       /\ r.request.nameFilter = {} \/ x.Name \in r.request.nameFilter}

\* C12: ListPipeline of a caller other than root with an owner filter (and a
\* marker that decodes) fails with InvalidArguments and returns no row; with
\* an empty owner filter every page it returns holds pipelines of the caller
\* only, and the page is marked truncated exactly when the caller owns a
\* selected pipeline with a greater key, whatever the other owners' pipelines.
C12_ListRestrictedToCaller ==
    [][ \A p \in Procs :
          /\ pc[p] = "idle" /\ pc'[p] # "idle" =>
                \A request \in PagingLists :
                    ~IsRootUser(request.user) /\ request.userFilter # {}
                      /\ ~MarkerPk(request.marker).err
                      /\ ListPipeline_Fetch(p, {request}) =>
                        /\ pc'[p] = "done" /\ res'[p].err
                        /\ res'[p].code = InvalidArguments /\ res'[p].list = <<>>
          /\ ReturnsPipelines(p) /\ run[p].request.op = "ListPipeline"
                /\ ~IsRootUser(run[p].request.user) =>
                LET list == res'[p].list
                    lastPk == list[Len(list)].Pk
                    own == OwnPipelines(run[p])
                IN  /\ \A i \in 1..Len(list) : list[i].UserName = run[p].request.user
                    /\ (\E x \in own : x.Pk = lastPk) =>
                         (res'[p].IsTruncated <=> \E x \in own : x.Pk > lastPk) ]_vars

\* C12 witness: alice received a page of her pipelines without a marker
\* while root owns a pipeline with a greater key
C12_Witness ==
    \E p \in Procs :
        /\ RunEnded(p) /\ run[p].request.op = "ListPipeline"
        /\ run[p].request.user = "alice" /\ Len(res[p].list) > 0
        /\ \E x \in pipelines :
              /\ x.UserName = RootUserName
              /\ x.Pk > res[p].list[Len(res[p].list)].Pk

(***************************************************************************)
(* Properties of the lookups of a pipeline                                 *)
(***************************************************************************)
AccessRequests ==
    AccessUpdates \cup DeleteRequests \cup DeleteVersionRequests
    \cup AccessGets \cup GetVersionRequests

\* the step is handler p taking the request
Calls(p, request) ==
    /\ pc[p] = "idle" /\ pc'[p] # "idle" /\ req'[p].op = request.op
    /\ CASE request.op = "UpdatePipeline" -> UpdatePipeline_Check(p, {request})
         [] request.op = "DeletePipeline" -> DeletePipeline_Permission(p, {request})
         [] request.op = "DeletePipelineVersion" ->
                DeletePipelineVersion_Permission(p, {request})
         [] request.op = "GetPipeline" -> GetPipeline_Lookup(p, {request})
         [] request.op = "GetPipelineVersion" -> GetPipelineVersion(p, {request})

\* an update request whose source and description pass the checks made
\* before the pipeline is looked up; any request of another kind
WellFormed(request) == request.op = "UpdatePipeline" => ValidCreate(request)

StoredPipeline(pipelineID) == \E r \in pipelines : r.ID = pipelineID

\* C11: a well-formed UpdatePipeline, GetPipeline, GetPipelineVersion,
\* DeletePipeline or DeletePipelineVersion on a stored pipeline by a caller
\* who is neither root nor its owner ends with AccessDenied and leaves the
\* tables as they are; by root or the owner it does not end with AccessDenied.
C11_AccessRootOrOwner ==
    [][ \A p \in Procs :
          pc[p] = "idle" /\ pc'[p] # "idle" =>
            \A request \in AccessRequests :
                request.op = req'[p].op /\ WellFormed(request)
                  /\ StoredPipeline(request.pipelineID) /\ Calls(p, request) =>
                    IF Authorized(request.user, request.pipelineID)
                    THEN res'[p].code # AccessDenied
                    ELSE /\ pc'[p] = "done" /\ res'[p].err /\ UNCHANGED store
                         /\ res'[p].code = AccessDenied \/ res'[p].fault ]_vars

\* C11 witness: one caller was denied a version, another was given a
\* version of a pipeline of alice
C11_Witness ==
    \E p, q \in Procs :
        /\ req[p].op = "GetPipelineVersion" /\ res[p].code = AccessDenied
        /\ req[q].op = "GetPipelineVersion" /\ ~res[q].err
        /\ res[q].Pipeline.UserName = "alice"

\* the store has no row for the pipeline of the request, or none for its version
StoredVersion(pipelineID, pipelineVersionID) ==
    \E v \in versions : v.PipelineID = pipelineID /\ v.ID = pipelineVersionID
NotStored(request) ==
    \/ ~StoredPipeline(request.pipelineID)
    \/ /\ request.op \in {"GetPipelineVersion", "DeletePipelineVersion"}
       /\ ~StoredVersion(request.pipelineID, request.pipelineVersionID)

\* C13: when the store answers a lookup of UpdatePipeline, GetPipeline,
\* GetPipelineVersion, DeletePipeline or DeletePipelineVersion with "record
\* not found" (and reports no other failure), the request fails with an error
\* code other than InternalError.
C13_NotFoundIsNotInternalError ==
    [][ \A p \in Procs :
          pc[p] = "idle" /\ pc'[p] # "idle" =>
            \A request \in AccessRequests :
                request.op = req'[p].op /\ WellFormed(request) /\ NotStored(request)
                  /\ Calls(p, request) /\ ~res'[p].fault =>
                    /\ pc'[p] = "done" /\ res'[p].err
                    /\ res'[p].code # InternalError ]_vars

\* C13 witness: GetPipelineVersion, DeletePipeline and DeletePipelineVersion
\* answer InternalError though the store reported no failure but a missing row
C13_Witness ==
    \E p \in Procs :
        /\ pc[p] = "done" /\ res[p].code = InternalError /\ ~res[p].fault
        /\ req[p].op \in {"GetPipelineVersion", "DeletePipeline", "DeletePipelineVersion"}

\* C15: in every reachable state every version row belongs to a stored
\* pipeline row, also after UpdatePipeline and DeletePipeline of the same
\* pipeline have run interleaved.
C15_VersionsHaveDefinition ==
    \A v \in versions : StoredPipeline(v.PipelineID)

\* C15 witness: an UpdatePipeline returned the id of a version it inserted for
\* a pipeline that was deleted after its permission check
C15_Witness ==
    \E p \in Procs :
        /\ pc[p] = "done" /\ req[p].op = "UpdatePipeline" /\ res[p].wrote
        /\ \E v \in versions :
              /\ v.ID = res[p].PipelineVersionID
              /\ ~StoredPipeline(v.PipelineID)

\* the stored pipeline of the request has another name than its workflow
Renames(request) ==
    \E r \in pipelines : r.ID = request.pipelineID /\ r.Name # ResolvedName(request)

\* C16: an UpdatePipeline by root or the owner with a valid workflow whose
\* name is not the name of the stored pipeline fails with InvalidArguments and
\* leaves the tables as they are; and no step changes the name of a stored
\* pipeline.
C16_NameNeverChanges ==
    [][ /\ \A p \in Procs :
             pc[p] = "idle" /\ pc'[p] # "idle" =>
               \A request \in AccessUpdates :
                   request.op = req'[p].op /\ WellFormed(request) /\ Renames(request)
                     /\ Authorized(request.user, request.pipelineID)
                     /\ Calls(p, request) /\ ~res'[p].fault =>
                       /\ pc'[p] = "done" /\ res'[p].err
                       /\ res'[p].code = InvalidArguments /\ UNCHANGED store
        /\ \A r \in pipelines, t \in pipelines' :
             r.ID = t.ID => r.Name = t.Name /\ r.Pk = t.Pk ]_vars

\* C16 witness: an UpdatePipeline failed with InvalidArguments on a store that
\* has, and so had, a pipeline for each id a request can name
C16_Witness ==
    /\ \A id \in PplIDs : StoredPipeline(id)
    /\ \E p \in Procs :
          /\ pc[p] = "done" /\ req[p].op = "UpdatePipeline"
          /\ res[p].code = InvalidArguments /\ ~res[p].fault

(***************************************************************************)
(* Properties of the source of a pipeline                                  *)
(***************************************************************************)
\* the step is handler p taking the create or update request
Takes(p, request) ==
    /\ pc[p] = "idle" /\ pc'[p] # "idle" /\ req'[p].op = request.op
    /\ IF request.op = "CreatePipeline" THEN CreatePipeline_Check(p, {request})
       ELSE UpdatePipeline_Check(p, {request})

\* the request names an inline payload along with a path or a filesystem
Conflicting(request) ==
    request.YamlRaw # "" /\ (request.YamlPath # "" \/ request.FsName # "")
\* the request names neither an inline payload nor a filesystem
Sourceless(request) == request.YamlRaw = "" /\ request.FsName = ""
\* the request names a filesystem and nothing else
FsOnly(request) == request.YamlRaw = "" /\ request.YamlPath = "" /\ request.FsName # ""

\* C14: CreatePipeline and UpdatePipeline fail with InvalidArguments and leave
\* the store as it is when the request has an inline payload along with a
\* path or a filesystem name, or neither a payload nor a filesystem name; a
\* request with only a filesystem name that passes the checks goes on with
\* the path ./run.yaml, and the version a write inserts has the path the
\* handler went on with.
C14_OneSourceOrInvalid ==
    [][ \A p \in Procs :
          /\ pc[p] = "idle" /\ pc'[p] # "idle" =>
                \A request \in SourceCreates \cup SourceUpdates :
                    request.op = req'[p].op /\ Takes(p, request) =>
                      /\ Conflicting(request) \/ Sourceless(request) =>
                            /\ pc'[p] = "done" /\ res'[p].err
                            /\ res'[p].code = InvalidArguments /\ UNCHANGED store
                      /\ FsOnly(request) /\ pc'[p] # "done" =>
                            loc'[p].YamlPath = DefaultYamlPath
          /\ pc[p] \in {"create_write", "update_write"} /\ pc'[p] = "done"
                /\ res'[p].wrote =>
                \E v \in versions' \ versions :
                    /\ versions' = versions \cup {v}
                    /\ v.YamlPath = loc[p].YamlPath /\ v.FsName = req[p].FsName ]_vars

\* C14 witness: a pipeline created from the default file of a filesystem and
\* updated from it, while a request without a source was refused
C14_Witness ==
    /\ \E v, w \in versions :
          /\ v.PipelineID = w.PipelineID /\ v.ID # w.ID
          /\ v.YamlPath = DefaultYamlPath /\ w.YamlPath = DefaultYamlPath
          /\ v.FsName = "fs1" /\ w.FsName = "fs1"
    /\ \E p \in Procs : pc[p] = "done" /\ res[p].code = InvalidArguments

\* C21: no stored version has a filesystem name without a filesystem id, and
\* no request that left an error code on its context returned a success; so a
\* create or update whose filesystem cannot be resolved just before the write
\* has stored nothing.
C21_UnresolvedFsStoresNothing ==
    /\ \A v \in versions : v.FsName # "" => v.FsID # ""
    /\ \A p \in Procs : pc[p] = "done" /\ res[p].code # NoError => res[p].err

\* C21 witness: a create and an update of alice returned the ids of the
\* versions they stored along with an error code; the versions name the
\* filesystem and have no filesystem id
C21_Witness ==
    \E p, q \in Procs :
        /\ pc[p] = "done" /\ req[p].op = "CreatePipeline"
        /\ res[p].wrote /\ ~res[p].err /\ res[p].code = InvalidArguments
        /\ pc[q] = "done" /\ req[q].op = "UpdatePipeline"
        /\ res[q].wrote /\ ~res[q].err /\ res[q].code = InternalError
        /\ \A id \in {res[p].PipelineVersionID, res[q].PipelineVersionID} :
              \E v \in versions : v.ID = id /\ v.FsName = "fs1" /\ v.FsID = ""

(***************************************************************************)
(* Properties of the errors of the operations                              *)
(***************************************************************************)
ReadOperations == {"ListPipeline", "GetPipeline", "GetPipelineVersion"}

\* C22: a step in which a handler of any of the seven operations returns an
\* error leaves the tables as they are, and the error comes with an error
\* code; the tables change only in a write step that returns without an
\* error, so no earlier step of a call that fails has changed them; and no
\* step of ListPipeline, GetPipeline or GetPipelineVersion changes the tables.
C22_ErrorsChangeNothing ==
    [][ /\ \A p \in Procs :
             /\ pc[p] # "done" /\ pc'[p] = "done" /\ res'[p].err =>
                   UNCHANGED store /\ res'[p].code # NoError
             /\ pc'[p] # pc[p] /\ req'[p].op \in ReadOperations => UNCHANGED store
        /\ store' # store =>
             \E p \in Procs :
                 /\ pc[p] \in {"create_write", "update_write", "delete_write", "delver_write"}
                 /\ pc'[p] = "done" /\ ~res'[p].err /\ res'[p].wrote ]_vars

\* C22 witness: on a store with a pipeline, a handler of a write operation
\* returned InternalError from its store call and a handler of ListPipeline
\* returned a page
C22_Witness ==
    \E p, q \in Procs :
        /\ pipelines # {}
        /\ pc[p] = "done" /\ res[p].err /\ res[p].fault /\ res[p].code = InternalError
        /\ req[p].op \in {"UpdatePipeline", "DeletePipeline", "DeletePipelineVersion"}
        /\ pc[q] = "done" /\ req[q].op = "ListPipeline" /\ ~res[q].err
        /\ Len(res[q].list) = 1

(***************************************************************************)
(* Properties of the progress of a listing                                 *)
(***************************************************************************)
\* the reader's client is following the markers of a listing
Following == run[Reader].request.op # ""
\* the reader's client has received a page without a marker, or an error
Ended == pc[Reader] = "done" /\ ~res[Reader].IsTruncated

\* C23: the NextMarker of a page of ListPipeline or GetPipeline decrypts to a
\* key greater than the key of the marker the page was asked with, which for
\* a client that follows the markers is the key of the last row it had
\* received, or 0 for the empty marker; and while nothing is inserted, a
\* client that keeps asking with the marker it received, and whose handler
\* keeps running, comes to a page without a marker (or to an error).
C23_MarkersAdvance ==
    /\ [][ \A p \in Procs :
              (ReturnsPipelines(p) \/ ReturnsVersions(p))
                /\ run[p].request.op # "" /\ res'[p].IsTruncated =>
                  /\ ~DecryptPk(res'[p].NextMarker).err
                  /\ DecryptPk(res'[p].NextMarker).pk > LastKey(run[p]) ]_vars
    /\ Following ~> Ended

\* C23 witness: the client received its third page, the last, of one row each
C23_Witness ==
    /\ RunEnded(Reader) /\ run[Reader].pages = 3
    /\ run[Reader].request.maxKeys = 1 /\ Len(run[Reader].acc) = 3

====
